---- MODULE Spec2Model ----
(***************************************************************************)
(* Protocol engine of the Chandler Water System Bluetooth client           *)
(* (custom_components/chandler_system/client.py): frame handling,          *)
(* fragment reassembly, JSON decode and merge, the authentication          *)
(* handshake, the monitor loop and connect()/disconnect().                 *)
(*                                                                         *)
(* Bytes are integers 0..255, frames and buffers are sequences of bytes.   *)
(* Every action is one run of a coroutine between two suspension points    *)
(* of the asyncio event loop (an await that really waits: a queue get, a   *)
(* GATT write, a connection attempt, a task join).                         *)
(***************************************************************************)
EXTENDS Integers, Sequences, FiniteSets, TLC

\* ------------------------------------------------------------------------
\* Protocol constants (client.py:22-30)
\* ------------------------------------------------------------------------
AUTH_REQUEST == 234

ACK == 204

KEEP_ALIVE_MARCO == 224

KEEP_ALIVE_POLO == 240

HEADER_FIRST_PACKET == 128

HEADER_LAST_PACKET == 64

\* header & mask, for a one-bit mask
BitSet(header, mask) == (header \div mask) % 2 = 1

\* ------------------------------------------------------------------------
\* JSON values: tagged records, the tag first so that values of different
\* kinds compare by their tag.
\* ------------------------------------------------------------------------
\* Python's None: an unset field, and the JSON value null
NoneV == [t |-> "none", v |-> 0]

IntV(n) == [t |-> "int", v |-> n]

StrV(s) == [t |-> "str", v |-> s]

BoolV(b) == [t |-> "bool", v |-> b]

ArrV(elems) == [t |-> "arr", v |-> elems]

\* an object is the sequence of its members in insertion order, keys unique
ObjV(members) == [t |-> "obj", v |-> members]

\* ------------------------------------------------------------------------
\* bytes.decode("utf-8"): the strict UTF-8 validity test.
\* ------------------------------------------------------------------------
IsCont(s, i) == i <= Len(s) /\ s[i] >= 128 /\ s[i] <= 191

RECURSIVE Utf8Valid(_, _)
Utf8Valid(s, i) ==
  IF i > Len(s) THEN TRUE
  ELSE LET b == s[i] IN
    IF b < 128 THEN Utf8Valid(s, i + 1)
    ELSE IF b >= 194 /\ b <= 223
      THEN IsCont(s, i + 1) /\ Utf8Valid(s, i + 2)
    ELSE IF b >= 224 /\ b <= 239
      THEN /\ IsCont(s, i + 1) /\ IsCont(s, i + 2)
           /\ (b = 224 => s[i + 1] >= 160)
           /\ (b = 237 => s[i + 1] <= 159)
           /\ Utf8Valid(s, i + 3)
    ELSE IF b >= 240 /\ b <= 244
      THEN /\ IsCont(s, i + 1) /\ IsCont(s, i + 2) /\ IsCont(s, i + 3)
           /\ (b = 240 => s[i + 1] >= 144)
           /\ (b = 244 => s[i + 1] <= 143)
           /\ Utf8Valid(s, i + 4)
    ELSE FALSE

\* ------------------------------------------------------------------------
\* json.loads: a recursive-descent parser of JSON text.  Strings with
\* escapes and numbers with a fraction or an exponent are outside the
\* modelled input language (no modelled frame holds a backslash, '.', 'e'
\* or 'E' in those places); NaN and Infinity likewise.
\* ------------------------------------------------------------------------
IsWs(b) == b \in {32, 9, 10, 13}

IsDigit(b) == b >= 48 /\ b <= 57

RECURSIVE SkipWs(_, _)
SkipWs(s, i) == IF i <= Len(s) /\ IsWs(s[i]) THEN SkipWs(s, i + 1) ELSE i

ParseFail(i) == [ok |-> FALSE, val |-> NoneV, pos |-> i]

ParseOk(val, i) == [ok |-> TRUE, val |-> val, pos |-> i]

StartsWith(s, i, lit) ==
  i + Len(lit) - 1 <= Len(s) /\ SubSeq(s, i, i + Len(lit) - 1) = lit

\* index of the closing quote of the string whose body starts at j, 0 if none
RECURSIVE StrEnd(_, _)
StrEnd(s, j) ==
  IF j > Len(s) THEN 0
  ELSE IF s[j] = 34 THEN j
  ELSE IF s[j] < 32 \/ s[j] = 92 THEN 0
  ELSE StrEnd(s, j + 1)

ParseString(s, i) ==
  IF i <= Len(s) /\ s[i] = 34
  THEN LET j == StrEnd(s, i + 1) IN
       IF j = 0 THEN ParseFail(i) ELSE ParseOk(StrV(SubSeq(s, i + 1, j - 1)), j + 1)
  ELSE ParseFail(i)

RECURSIVE DigitsEnd(_, _)
DigitsEnd(s, i) == IF i <= Len(s) /\ IsDigit(s[i]) THEN DigitsEnd(s, i + 1) ELSE i

RECURSIVE DigitsVal(_, _, _, _)
DigitsVal(s, i, last, acc) ==
  IF i > last THEN acc ELSE DigitsVal(s, i + 1, last, acc * 10 + (s[i] - 48))

ParseNumber(s, i) ==
  LET neg == i <= Len(s) /\ s[i] = 45
      d == IF neg THEN i + 1 ELSE i
  IN IF d > Len(s) \/ ~IsDigit(s[d]) THEN ParseFail(i)
     ELSE LET e == IF s[d] = 48 THEN d + 1 ELSE DigitsEnd(s, d)
              n == DigitsVal(s, d, e - 1, 0)
          IN IF e <= Len(s) /\ s[e] \in {46, 101, 69} THEN ParseFail(i)
             ELSE ParseOk(IntV(IF neg THEN 0 - n ELSE n), e)

\* dict semantics of a repeated key: the value is replaced in place
RECURSIVE PutMember(_, _, _)
PutMember(members, k, val) ==
  IF members = <<>> THEN <<[k |-> k, v |-> val]>>
  ELSE IF Head(members).k = k THEN <<[k |-> k, v |-> val]>> \o Tail(members)
  ELSE <<Head(members)>> \o PutMember(Tail(members), k, val)

RECURSIVE ParseValue(_, _)
RECURSIVE ParseElems(_, _, _)
RECURSIVE ParseMembers(_, _, _)

\* after an element of an array: ',' and the next element, or ']'
ElemsSep(s, k, acc) ==
  IF k > Len(s) THEN ParseFail(k)
  ELSE IF s[k] = 44 THEN ParseElems(s, SkipWs(s, k + 1), acc)
  ELSE IF s[k] = 93 THEN ParseOk(ArrV(acc), k + 1)
  ELSE ParseFail(k)

ElemsValue(s, r, acc) ==
  IF ~r.ok THEN ParseFail(r.pos)
  ELSE ElemsSep(s, SkipWs(s, r.pos), Append(acc, r.val))

ParseElems(s, i, acc) == ElemsValue(s, ParseValue(s, i), acc)

\* after a member of an object: ',' and the next member, or '}'
MembersSep(s, k, acc) ==
  IF k > Len(s) THEN ParseFail(k)
  ELSE IF s[k] = 44 THEN ParseMembers(s, SkipWs(s, k + 1), acc)
  ELSE IF s[k] = 125 THEN ParseOk(ObjV(acc), k + 1)
  ELSE ParseFail(k)

MembersValue(s, key, r, acc) ==
  IF ~r.ok THEN ParseFail(r.pos)
  ELSE MembersSep(s, SkipWs(s, r.pos), PutMember(acc, key, r.val))

MembersColon(s, key, c, acc) ==
  IF c > Len(s) \/ s[c] # 58 THEN ParseFail(c)
  ELSE MembersValue(s, key, ParseValue(s, SkipWs(s, c + 1)), acc)

MembersKey(s, k, acc) ==
  IF ~k.ok THEN ParseFail(k.pos)
  ELSE MembersColon(s, k.val.v, SkipWs(s, k.pos), acc)

ParseMembers(s, i, acc) == MembersKey(s, ParseString(s, i), acc)

\* after '{' and after '['
ObjectAt(s, j) ==
  IF j <= Len(s) /\ s[j] = 125 THEN ParseOk(ObjV(<<>>), j + 1)
  ELSE ParseMembers(s, j, <<>>)

ArrayAt(s, j) ==
  IF j <= Len(s) /\ s[j] = 93 THEN ParseOk(ArrV(<<>>), j + 1)
  ELSE ParseElems(s, j, <<>>)

ParseValue(s, i) ==
  IF i > Len(s) THEN ParseFail(i)
  ELSE IF s[i] = 34 THEN ParseString(s, i)
  ELSE IF s[i] = 123 THEN ObjectAt(s, SkipWs(s, i + 1))
  ELSE IF s[i] = 91 THEN ArrayAt(s, SkipWs(s, i + 1))
  ELSE IF StartsWith(s, i, <<110, 117, 108, 108>>) THEN ParseOk(NoneV, i + 4)
  ELSE IF StartsWith(s, i, <<116, 114, 117, 101>>) THEN ParseOk(BoolV(TRUE), i + 4)
  ELSE IF StartsWith(s, i, <<102, 97, 108, 115, 101>>) THEN ParseOk(BoolV(FALSE), i + 5)
  ELSE IF s[i] = 45 \/ IsDigit(s[i]) THEN ParseNumber(s, i)
  ELSE ParseFail(i)

\* json.loads(text): one value, surrounded by optional whitespace, then the end
WholeText(s, r) ==
  IF r.ok /\ SkipWs(s, r.pos) = Len(s) + 1 THEN r ELSE ParseFail(1)

JsonLoads(s) == WholeText(s, ParseValue(s, SkipWs(s, 1)))

\* ------------------------------------------------------------------------
\* The field table of _map_json_to_data, in the order of the code: JSON
\* key, DeviceData field, and whether the value goes through bool().
\* ------------------------------------------------------------------------
FieldTable ==
    << 
       [key |-> <<100, 104>>, field |-> "time_hours", coerce |-> FALSE],
       [key |-> <<100, 109>>, field |-> "time_minutes", coerce |-> FALSE],
       [key |-> <<100, 98, 108>>, field |-> "battery_level_mv", coerce |-> FALSE],
       [key |-> <<100, 116, 103, 114>>, field |-> "total_gallons_remaining", coerce |-> FALSE],
       [key |-> <<100, 112, 102, 100>>, field |-> "peak_flow_daily", coerce |-> FALSE],
       [key |-> <<100, 119, 104>>, field |-> "water_hardness", coerce |-> FALSE],
       [key |-> <<100, 100, 111>>, field |-> "day_override", coerce |-> FALSE],
       [key |-> <<100, 99, 100, 111>>, field |-> "current_day_override", coerce |-> FALSE],
       [key |-> <<100, 119, 117>>, field |-> "water_used_today", coerce |-> FALSE],
       [key |-> <<100, 119, 97, 117>>, field |-> "average_water_used", coerce |-> FALSE],
       [key |-> <<100, 114, 116, 104>>, field |-> "regen_time_hours", coerce |-> FALSE],
       [key |-> <<100, 114, 116, 116>>, field |-> "regen_time_type", coerce |-> FALSE],
       [key |-> <<100, 114, 116, 114>>, field |-> "regen_time_remaining", coerce |-> FALSE],
       [key |-> <<100, 114, 99, 112>>, field |-> "regen_current_position", coerce |-> FALSE],
       [key |-> <<100, 114, 105, 97>>, field |-> "regen_in_aeration", coerce |-> TRUE],
       [key |-> <<100, 112, 115>>, field |-> "regen_soak_mode", coerce |-> TRUE],
       [key |-> <<100, 114, 115, 116>>, field |-> "regen_soak_timer", coerce |-> FALSE],
       [key |-> <<100, 112, 101>>, field |-> "prefill_enabled", coerce |-> TRUE],
       [key |-> <<100, 112, 100>>, field |-> "prefill_duration", coerce |-> FALSE],
       [key |-> <<100, 98, 116, 115>>, field |-> "brine_tank_total_salt", coerce |-> FALSE],
       [key |-> <<100, 98, 116, 114>>, field |-> "brine_tank_remaining_salt", coerce |-> FALSE],
       [key |-> <<100, 98, 116, 119>>, field |-> "brine_tank_width", coerce |-> FALSE],
       [key |-> <<100, 98, 116, 104>>, field |-> "brine_tank_height", coerce |-> FALSE],
       [key |-> <<100, 98, 114, 116>>, field |-> "brine_tank_reserve_time", coerce |-> FALSE],
       [key |-> <<97, 115, 100>>, field |-> "days_until_regen", coerce |-> FALSE],
       [key |-> <<97, 115, 114>>, field |-> "regen_day_override", coerce |-> FALSE],
       [key |-> <<97, 115, 97, 114>>, field |-> "auto_reserve_mode", coerce |-> TRUE],
       [key |-> <<97, 115, 114, 99>>, field |-> "reserve_capacity", coerce |-> FALSE],
       [key |-> <<97, 115, 114, 103>>, field |-> "reserve_capacity_gallons", coerce |-> FALSE],
       [key |-> <<97, 115, 116, 103>>, field |-> "total_grains_capacity", coerce |-> FALSE],
       [key |-> <<97, 115, 97, 100>>, field |-> "aeration_days", coerce |-> FALSE],
       [key |-> <<97, 115, 99, 112>>, field |-> "chlorine_pulses", coerce |-> FALSE],
       [key |-> <<97, 115, 100, 111>>, field |-> "display_off", coerce |-> TRUE],
       [key |-> <<97, 115, 110, 112>>, field |-> "num_regen_positions", coerce |-> FALSE],
       [key |-> <<115, 104, 100, 111>>, field |-> "days_in_operation", coerce |-> FALSE],
       [key |-> <<115, 104, 100, 114>>, field |-> "days_since_last_regen", coerce |-> FALSE],
       [key |-> <<115, 104, 103, 115>>, field |-> "gallons_since_last_regen", coerce |-> FALSE],
       [key |-> <<115, 104, 114, 99>>, field |-> "regen_counter", coerce |-> FALSE],
       [key |-> <<115, 104, 114, 114>>, field |-> "regen_counter_resettable", coerce |-> FALSE],
       [key |-> <<115, 104, 103, 116>>, field |-> "total_gallons", coerce |-> FALSE],
       [key |-> <<115, 104, 103, 114>>, field |-> "total_gallons_resettable", coerce |-> FALSE],
       [key |-> <<103, 118, 115>>, field |-> "valve_status", coerce |-> FALSE],
       [key |-> <<103, 118, 101>>, field |-> "valve_error", coerce |-> FALSE],
       [key |-> <<103, 112, 102>>, field |-> "present_flow", coerce |-> FALSE],
       [key |-> <<103, 114, 97>>, field |-> "regen_active", coerce |-> TRUE],
       [key |-> <<103, 114, 115>>, field |-> "regen_state", coerce |-> FALSE],
       [key |-> <<97, 115>>, field |-> "auth_state", coerce |-> FALSE]
    >>

FieldNames == {FieldTable[i].field : i \in 1..Len(FieldTable)}



\* ------------------------------------------------------------------------
\* dict.update(json_data) on raw_data (client.py:285).  raw_data is a
\* function from hashable JSON values to JSON values.  update() takes a
\* mapping, or an iterable of 2-element iterables; anything else raises
\* TypeError / ValueError, after the pairs before it were stored.
\* ------------------------------------------------------------------------
Hashable(val) == val.t \in {"int", "str", "none", "bool"}

\* True == 1 and False == 0 as dict keys
KeyOf(val) == IF val.t = "bool" THEN IntV(IF val.v THEN 1 ELSE 0) ELSE val

PutRaw(raw, k, val) ==
  [x \in (DOMAIN raw) \cup {k} |-> IF x = k THEN val ELSE raw[x]]

\* the indices at which a character of a UTF-8 string starts
CharStarts(s) == {i \in 1..Len(s) : s[i] < 128 \/ s[i] > 191}

NoPair == [ok |-> FALSE, k |-> NoneV, v |-> NoneV]

\* an element of the iterable as a (key, value) pair
PairOf(e) ==
  IF e.t = "arr"
    THEN IF Len(e.v) = 2 /\ Hashable(e.v[1])
         THEN [ok |-> TRUE, k |-> KeyOf(e.v[1]), v |-> e.v[2]]
         ELSE NoPair
  ELSE IF e.t = "str"
    THEN IF Cardinality(CharStarts(e.v)) = 2
         THEN LET j == CHOOSE i \in CharStarts(e.v) : i > 1 IN
              [ok |-> TRUE, k |-> StrV(SubSeq(e.v, 1, j - 1)),
               v |-> StrV(SubSeq(e.v, j, Len(e.v)))]
         ELSE NoPair
  ELSE IF e.t = "obj"
    THEN IF Len(e.v) = 2
         THEN [ok |-> TRUE, k |-> StrV(e.v[1].k), v |-> StrV(e.v[2].k)]
         ELSE NoPair
  ELSE NoPair

RECURSIVE UpdateFromPairs(_, _)
UpdateFromPairs(raw, elems) ==
  IF elems = <<>> THEN [raised |-> FALSE, raw |-> raw]
  ELSE LET p == PairOf(Head(elems)) IN
    IF ~p.ok THEN [raised |-> TRUE, raw |-> raw]
    ELSE UpdateFromPairs(PutRaw(raw, p.k, p.v), Tail(elems))

RECURSIVE UpdateFromMembers(_, _)
RECURSIVE UpdateFromKnownMembers(_, _)
\* only the keys of the field table are kept
UpdateFromKnownMembers(raw, members) ==
  IF members = <<>> THEN raw
  ELSE IF \E i \in 1..Len(FieldTable) : FieldTable[i].key = Head(members).k
       THEN UpdateFromKnownMembers(PutRaw(raw, StrV(Head(members).k), Head(members).v),
                                   Tail(members))
  ELSE UpdateFromKnownMembers(raw, Tail(members))

UpdateFromMembers(raw, members) ==
  IF members = <<>> THEN raw
  ELSE UpdateFromMembers(PutRaw(raw, StrV(Head(members).k), Head(members).v),
                         Tail(members))

DictUpdate(raw, jv) ==
  IF jv.t = "obj" THEN [raised |-> FALSE, raw |-> UpdateFromMembers(raw, jv.v)]
  ELSE IF jv.t = "arr" THEN UpdateFromPairs(raw, jv.v)
  ELSE IF jv.t = "str" /\ jv.v = <<>> THEN [raised |-> FALSE, raw |-> raw]
  ELSE [raised |-> TRUE, raw |-> raw]

\* ------------------------------------------------------------------------
\* _map_json_to_data (client.py:297-401)
\* ------------------------------------------------------------------------
\* bool(value)
Truthy(val) ==
  IF val.t = "int" THEN val.v # 0
  ELSE IF val.t = "bool" THEN val.v
  ELSE IF val.t \in {"str", "arr", "obj"} THEN val.v # <<>>
  ELSE FALSE

\* json_data[k] of an object that holds k
Lookup(members, k) ==
  LET i == CHOOSE j \in 1..Len(members) : members[j].k = k IN members[i].v

HasKey(members, k) == \E j \in 1..Len(members) : members[j].k = k

\* `"key" in json_data`: a key of an object, an element of a list, a
\* substring of a string (only the empty string gets this far)
KeyIn(k, jv) ==
  IF jv.t = "obj" THEN HasKey(jv.v, k)
  ELSE IF jv.t = "arr" THEN \E j \in 1..Len(jv.v) : jv.v[j] = StrV(k)
  ELSE FALSE

\* bool() applied to every value, not only to the six boolean fields
StoredCoerced(e, jv) == BoolV(Truthy(Lookup(jv.v, e.key)))

\* the value the table entry e stores for the object jv
Stored(e, jv) ==
  IF e.coerce THEN BoolV(Truthy(Lookup(jv.v, e.key))) ELSE Lookup(jv.v, e.key)

\* a fresh DeviceData filled from the object: fields of absent keys are reset
MapJsonToDataReplaces(fields, jv) ==
  IF jv.t = "obj"
  THEN [raised |-> FALSE,
        fields |-> [fn \in DOMAIN fields |->
           LET hit == {i \in 1..Len(FieldTable) :
                         FieldTable[i].field = fn /\ KeyIn(FieldTable[i].key, jv)}
           IN IF hit = {} THEN NoneV
              ELSE Stored(FieldTable[CHOOSE i \in hit : TRUE], jv)]]
  ELSE [raised |-> \E i \in 1..Len(FieldTable) : KeyIn(FieldTable[i].key, jv),
        fields |-> fields]

\* json_data["key"] exists only for an object: on a list it raises TypeError
MapJsonToData(fields, jv) ==
  IF jv.t = "obj"
  THEN [raised |-> FALSE,
        fields |-> [fn \in DOMAIN fields |->
           LET hit == {i \in 1..Len(FieldTable) :
                         FieldTable[i].field = fn /\ KeyIn(FieldTable[i].key, jv)}
           IN IF hit = {} THEN fields[fn]
              ELSE Stored(FieldTable[CHOOSE i \in hit : TRUE], jv)]]
  ELSE [raised |-> \E i \in 1..Len(FieldTable) : KeyIn(FieldTable[i].key, jv),
        fields |-> fields]

\* ------------------------------------------------------------------------
\* _parse_json_data (client.py:277-295) on buffer b and snapshot d.
\*   raised: an exception other than JSONDecodeError / UnicodeDecodeError
\*           left the method;  cb: the data callback was invoked.
\* ------------------------------------------------------------------------
\* client.py:288-292, after raw_data.update(json_data) gave u
MergeMapped(d, u, m) ==
  IF m.raised
  THEN [raised |-> TRUE, data |-> [d EXCEPT !.raw = u.raw], cb |-> FALSE]
  ELSE [raised |-> FALSE, data |-> [fields |-> m.fields, raw |-> u.raw],
        cb |-> TRUE]

\* client.py:285-288, json_data being jv
MergeRaw(d, jv, u) ==
  IF u.raised
  THEN [raised |-> TRUE, data |-> [d EXCEPT !.raw = u.raw], cb |-> FALSE]
  ELSE MergeMapped(d, u, MapJsonToData(d.fields, jv))

\* json.loads raising past a missing except clause
MergeParsedUncaught(d, r) ==
  IF ~r.ok THEN [raised |-> TRUE, data |-> d, cb |-> FALSE]
  ELSE MergeRaw(d, r.val, DictUpdate(d.raw, r.val))

\* client.py:281-295, json.loads having given r
MergeParsed(d, r) ==
  IF ~r.ok THEN [raised |-> FALSE, data |-> d, cb |-> FALSE]
  ELSE MergeRaw(d, r.val, DictUpdate(d.raw, r.val))

ParseJsonData(b, d) ==
  IF ~Utf8Valid(b, 1) THEN [raised |-> FALSE, data |-> d, cb |-> FALSE]
  ELSE MergeParsed(d, JsonLoads(b))

\* ------------------------------------------------------------------------
\* _process_packet (client.py:252-275) on frame f, buffer b, snapshot d.
\*   decoded: _parse_json_data ran, on the bytes `input`.
\* ------------------------------------------------------------------------
\* data[1:] : the trailer is not stripped
PayloadKeepsTrailer(f) == SubSeq(f, 2, Len(f))

\* data[1:-2]
Payload(f) == SubSeq(f, 2, Len(f) - 2)

IsLast(f) == BitSet(f[1], HEADER_LAST_PACKET)

\* client.py:273-275 on the extended buffer b2, _parse_json_data giving r
Completed(b2, r) ==
  [raised |-> r.raised, buf |-> IF r.raised THEN b2 ELSE <<>>,
   data |-> r.data, cb |-> r.cb, decoded |-> TRUE, input |-> b2]

\* client.py:268-275 on the extended buffer b2
Accumulated(f, b2, d) ==
  IF IsLast(f) THEN Completed(b2, ParseJsonData(b2, d))
  ELSE [raised |-> FALSE, buf |-> b2, data |-> d, cb |-> FALSE,
        decoded |-> FALSE, input |-> <<>>]

\* a reassembly that consults the first-fragment bit: a fragment that has it
\* starts a new message
ProcessPacketResets(f, b, d) ==
  IF Len(f) < 3
  THEN [raised |-> FALSE, buf |-> b, data |-> d, cb |-> FALSE,
        decoded |-> FALSE, input |-> <<>>]
  ELSE Accumulated(f, (IF BitSet(f[1], HEADER_FIRST_PACKET) THEN <<>> ELSE b) \o Payload(f), d)

\* the keep-alive branch at client.py:260-265 is never reached: a frame of
\* length 1 has returned at client.py:254-255
ProcessPacket(f, b, d) ==
  IF Len(f) < 3
  THEN [raised |-> FALSE, buf |-> b, data |-> d, cb |-> FALSE,
        decoded |-> FALSE, input |-> <<>>]
  ELSE Accumulated(f, b \o Payload(f), d)

\* ------------------------------------------------------------------------
\* Bounds and inputs
\* ------------------------------------------------------------------------
\* notifications the link delivers over a behaviour
MaxFrames == 2

\* BleakClient objects establish_connection hands out over a behaviour
MaxLinks == 1

\* frames the link has delivered and the engine has not yet dequeued
MaxQueue == 2

CallerIds == {1, 2}

MonIds == {1, 2}

\* BleakClient objects handed out over a behaviour in which two caller
\* tasks call connect() and disconnect() concurrently
MaxRaceLinks == 2

LinkIds == 1..(IF MaxLinks > MaxRaceLinks THEN MaxLinks ELSE MaxRaceLinks)

\* the 16 bytes of bytearray.fromhex(auth_token) (client.py:168)
AuthToken == <<1, 35, 69, 103, 137, 171, 205, 239, 1, 35, 69, 103, 137, 171, 205, 239>>

\* a data fragment: header, payload, two trailer bytes (not validated)
Fragment(header, payload) == <<header>> \o payload \o <<171, 205>>

AckFrame == <<ACK>>

KeepAliveFrame == <<KEEP_ALIVE_MARCO>>

\* {"dbl"   and   :5}   : the two halves of {"dbl":5}
FragFirst == Fragment(HEADER_FIRST_PACKET, <<123, 34, 100, 98, 108, 34>>)

FragLast == Fragment(HEADER_LAST_PACKET, <<58, 53, 125>>)

\* a last fragment with an empty payload, one of invalid UTF-8, and the
\* complete JSON texts 5 and []
FragEmptyLast == Fragment(HEADER_LAST_PACKET, <<>>)

FragBadUtf8 == Fragment(HEADER_LAST_PACKET, <<255>>)

FragNumber == Fragment(HEADER_FIRST_PACKET + HEADER_LAST_PACKET, <<53>>)

FragArray == Fragment(HEADER_FIRST_PACKET + HEADER_LAST_PACKET, <<91, 93>>)

\* the complete message {"zz":7}, zz not being a key of the field table
FragUnknown ==
  Fragment(HEADER_FIRST_PACKET + HEADER_LAST_PACKET,
           <<123, 34, 122, 122, 34, 58, 55, 125>>)

\* frames shorter than 3 bytes that are neither ACK nor keep-alive
ShortFrames == {<<>>, <<7>>, <<HEADER_LAST_PACKET, 125>>}

DataFrames ==
  {FragFirst, FragLast, FragEmptyLast, FragBadUtf8, FragNumber, FragArray,
   FragUnknown}

Frames == {AckFrame, KeepAliveFrame} \cup ShortFrames \cup DataFrames

\* ------------------------------------------------------------------------
\* State
\* ------------------------------------------------------------------------
VARIABLES
  state,         \* self._state
  client,        \* self._client: 0 for None, else the link held
  links,         \* the BleakClient objects: [st, connected, notify]
  queue,         \* self._notification_queue
  data_buffer,   \* self._data_buffer
  data,          \* self._data: [fields, raw]
  stop_event,    \* self._stop_event.is_set()
  monitor_task,  \* self._monitor_task: 0 for None, else the task
  calls,         \* per caller task: the connect()/disconnect() call in progress
  mons,          \* per monitor task: [pc, frame, cancel]
  nframes,       \* notifications delivered so far
  wlog,          \* packets handed to write_gatt_char since the latest connect() began
  frags,         \* the fragments whose payloads are in data_buffer
  dev,           \* the account of a device that waits for ACKs: [sent, mark]
  coord,         \* per task: the coordinator method it is inside, under _connection_lock
  ev             \* the latest step: what ran and what it did

vars == <<state, client, links, queue, data_buffer, data, stop_event,
          monitor_task, calls, mons, nframes, wlog, frags, dev, coord, ev>>

NoFrame == <<>>

IdleCall == [pc |-> "idle", link |-> 0, frame |-> NoFrame, mon |-> 0,
             inner |-> FALSE, ret |-> "none", why |-> "none", acked |-> FALSE]

NoMon == [pc |-> "none", frame |-> NoFrame, cancel |-> FALSE]

NoLink == [st |-> "unused", connected |-> FALSE, notify |-> FALSE]

EmptyData == [fields |-> [fn \in FieldNames |-> NoneV], raw |-> <<>>]

\* a step that handled no frame
Ev(op, task) ==
  [op |-> op, task |-> task, frame |-> NoFrame, up |-> FALSE, processed |-> FALSE,
   decoded |-> FALSE, input |-> <<>>, frs |-> <<>>, cb |-> FALSE, raised |-> FALSE]

\* a step that dequeued frame f with the link up or not, and wrote or skipped
EvFrame(op, task, f, up) == [Ev(op, task) EXCEPT !.frame = f, !.up = up]

\* a step that ran _process_packet on f with result r
EvProc(op, task, f, up, r) ==
  [Ev(op, task) EXCEPT !.frame = f, !.up = up, !.processed = TRUE,
     !.decoded = r.decoded, !.input = r.input,
     !.frs = IF r.decoded THEN Append(frags, f) ELSE <<>>,
     !.cb = r.cb, !.raised = r.raised]

\* ChandlerClient.__init__ (client.py:154-177)
Init ==
  /\ state = "DISCONNECTED"
  /\ client = 0
  /\ links = [l \in LinkIds |-> NoLink]
  /\ queue = <<>>
  /\ data_buffer = <<>>
  /\ data = EmptyData
  /\ stop_event = FALSE
  /\ monitor_task = 0
  /\ calls = [c \in CallerIds |-> IdleCall]
  /\ mons = [m \in MonIds |-> NoMon]
  /\ nframes = 0
  /\ wlog = <<>>
  /\ frags = <<>>
  /\ dev = [sent |-> 0, mark |-> 0]
  /\ coord = [c \in CallerIds |-> "out"]
  /\ ev = Ev("init", 0)

\* `self._client and self._client.is_connected` (client.py:214)
LinkUp == client # 0 /\ links[client].connected

\* is_connected (client.py:188-195)
IsConnected == state = "CONNECTED" /\ LinkUp

\* the fragments in the buffer after _process_packet(f) gave r
FragsAfter(f, r) ==
  IF Len(f) < 3 THEN frags
  ELSE IF r.decoded /\ ~r.raised THEN <<>>
  ELSE Append(frags, f)


\* ------------------------------------------------------------------------
\* The link (external): notifications, loss of the connection
\* ------------------------------------------------------------------------
\* a callback that puts the frame at the head of the queue
NotificationCallbackPrepends(f) ==
  /\ nframes < MaxFrames
  /\ Len(queue) < MaxQueue
  /\ \E l \in LinkIds : links[l].notify /\ links[l].connected
  /\ queue' = <<f>> \o queue
  /\ nframes' = nframes + 1
  /\ dev' = dev
  /\ coord' = coord
  /\ ev' = EvFrame("notify", 0, f, LinkUp)
  /\ UNCHANGED <<state, client, links, data_buffer, data, stop_event,
                 monitor_task, calls, mons, wlog, frags>>

\* a callback that handles the fragment itself: the payload goes to the buffer
NotificationCallbackAssembles(f) ==
  /\ nframes < MaxFrames
  /\ Len(queue) < MaxQueue
  /\ \E l \in LinkIds : links[l].notify /\ links[l].connected
  /\ queue' = Append(queue, f)
  /\ data_buffer' = IF Len(f) >= 3
                  THEN data_buffer \o [i \in 1..(Len(f) - 3) |-> f[i + 1]]
                  ELSE data_buffer
  /\ nframes' = nframes + 1
  /\ dev' = dev
  /\ coord' = coord
  /\ ev' = EvFrame("notify", 0, f, LinkUp)
  /\ UNCHANGED <<state, client, links, data, stop_event,
                 monitor_task, calls, mons, wlog, frags>>

\* _notification_callback (client.py:207-210), run by the link for frame f
NotificationCallback(f) ==
  /\ nframes < MaxFrames
  /\ Len(queue) < MaxQueue
  /\ \E l \in LinkIds : links[l].notify /\ links[l].connected
  /\ queue' = Append(queue, f)
  /\ nframes' = nframes + 1
  /\ dev' = dev
  /\ coord' = coord
  /\ ev' = EvFrame("notify", 0, f, LinkUp)
  /\ UNCHANGED <<state, client, links, data_buffer, data, stop_event,
                 monitor_task, calls, mons, wlog, frags>>

\* the device goes away: BleakClient.is_connected turns false
LinkDrop(l) ==
  /\ links[l].connected
  /\ links' = [links EXCEPT ![l].connected = FALSE]
  /\ ev' = Ev("link_drop", 0)
  /\ UNCHANGED <<state, client, queue, data_buffer, data, stop_event,
                 monitor_task, calls, mons, nframes, dev, coord, wlog, frags>>

\* _send_packet (client.py:212-218) with the link up: the packet is handed
\* to write_gatt_char, and the caller waits for the write to return
Written(task, pkt) == Append(wlog, [by |-> task, link |-> client, pkt |-> pkt])

\* ------------------------------------------------------------------------
\* _monitor_loop (client.py:403-444), monitor task m (task id 10 + m)
\* ------------------------------------------------------------------------
\* the while condition, and the lines after the loop when it is false
LoopTop ==
  IF stop_event THEN [pc |-> "done", state |-> "DISCONNECTED"]
  ELSE [pc |-> "wait", state |-> state]

\* first run of the task: cancelled before it ran, the coroutine never runs
MonStart(m) ==
  /\ mons[m].pc = "pending"
  /\ IF mons[m].cancel
     THEN /\ mons' = [mons EXCEPT ![m] = [NoMon EXCEPT !.pc = "done"]]
          /\ state' = state
     ELSE /\ mons' = [mons EXCEPT ![m].pc = LoopTop.pc]
          /\ state' = LoopTop.state
  /\ ev' = Ev("mon_start", 10 + m)
  /\ UNCHANGED <<client, links, queue, data_buffer, data, stop_event,
                 monitor_task, calls, nframes, dev, coord, wlog, frags>>

\* _process_packet(f) in the monitor loop, then the next iteration; an
\* exception leaves the loop (client.py:426-427, 439-444)
MonProcessed(m, f, op, up, r) ==
  /\ data_buffer' = r.buf
  /\ data' = r.data
  /\ frags' = FragsAfter(f, r)
  /\ IF r.raised
     THEN /\ mons' = [mons EXCEPT ![m] = [NoMon EXCEPT !.pc = "done"]]
          /\ state' = "DISCONNECTED"
     ELSE /\ mons' = [mons EXCEPT ![m] = [NoMon EXCEPT !.pc = LoopTop.pc]]
          /\ state' = LoopTop.state
  /\ ev' = EvProc(op, 10 + m, f, up, r)

MonProcess(m, f, op, up) ==
  MonProcessed(m, f, op, up, ProcessPacket(f, data_buffer, data))

\* a keep-alive probe is dequeued (client.py:414-417)
MonKeepAlive(m) ==
  /\ mons[m].pc = "wait" /\ ~mons[m].cancel
  /\ queue # <<>> /\ Head(queue) = <<KEEP_ALIVE_MARCO>>
  /\ queue' = Tail(queue)
  /\ IF LinkUp
     THEN /\ wlog' = Written(10 + m, <<KEEP_ALIVE_POLO>>)
          /\ mons' = [mons EXCEPT ![m].pc = "polo_write"]
          /\ state' = state
     ELSE /\ wlog' = wlog
          /\ mons' = [mons EXCEPT ![m].pc = LoopTop.pc]
          /\ state' = LoopTop.state
  /\ ev' = EvFrame("mon_keepalive", 10 + m, Head(queue), LinkUp)
  /\ UNCHANGED <<client, links, data_buffer, data, stop_event, monitor_task,
                 calls, nframes, dev, coord, frags>>

\* a loop that answers every one-byte frame with an ACK byte
MonSingleByteAcks(m) ==
  /\ mons[m].pc = "wait" /\ ~mons[m].cancel
  /\ queue # <<>> /\ Len(Head(queue)) = 1 /\ Head(queue)[1] # KEEP_ALIVE_MARCO
  /\ queue' = Tail(queue)
  /\ mons' = [mons EXCEPT ![m].pc = LoopTop.pc]
  /\ state' = LoopTop.state
  /\ wlog' = Written(10 + m, <<ACK>>)
  /\ ev' = EvFrame("mon_single", 10 + m, Head(queue), LinkUp)
  /\ UNCHANGED <<client, links, data_buffer, data, stop_event, monitor_task,
                 calls, nframes, dev, coord, frags>>

\* any other one-byte frame is dequeued: `continue` (client.py:414, 417)
MonSingleByte(m) ==
  /\ mons[m].pc = "wait" /\ ~mons[m].cancel
  /\ queue # <<>> /\ Len(Head(queue)) = 1 /\ Head(queue)[1] # KEEP_ALIVE_MARCO
  /\ queue' = Tail(queue)
  /\ mons' = [mons EXCEPT ![m].pc = LoopTop.pc]
  /\ state' = LoopTop.state
  /\ ev' = EvFrame("mon_single", 10 + m, Head(queue), LinkUp)
  /\ UNCHANGED <<client, links, data_buffer, data, stop_event, monitor_task,
                 calls, nframes, dev, coord, wlog, frags>>

\* a frame whose length is not 1 is dequeued with the link up: the ACK is
\* handed to the link (client.py:423-424)
MonData(m) ==
  /\ mons[m].pc = "wait" /\ ~mons[m].cancel
  /\ queue # <<>> /\ Len(Head(queue)) # 1
  /\ LinkUp
  /\ queue' = Tail(queue)
  /\ wlog' = Written(10 + m, <<ACK>>)
  /\ mons' = [mons EXCEPT ![m].pc = "ack_write", ![m].frame = Head(queue)]
  /\ ev' = EvFrame("mon_data", 10 + m, Head(queue), TRUE)
  /\ UNCHANGED <<state, client, links, data_buffer, data, stop_event,
                 monitor_task, calls, nframes, dev, coord, frags>>

\* the same with no link or the link down: _send_packet writes nothing
MonDataNoLink(m) ==
  /\ mons[m].pc = "wait" /\ ~mons[m].cancel
  /\ queue # <<>> /\ Len(Head(queue)) # 1
  /\ ~LinkUp
  /\ queue' = Tail(queue)
  /\ MonProcess(m, Head(queue), "mon_data_nolink", FALSE)
  /\ UNCHANGED <<client, links, stop_event, monitor_task, calls, nframes, dev, coord, wlog>>

\* the ACK write returned
MonAckWritten(m) ==
  /\ mons[m].pc = "ack_write" /\ ~mons[m].cancel
  /\ MonProcess(m, mons[m].frame, "mon_ack_written", TRUE)
  /\ UNCHANGED <<client, links, queue, stop_event, monitor_task, calls,
                 nframes, dev, coord, wlog>>

\* the keep-alive reply write returned
MonPoloWritten(m) ==
  /\ mons[m].pc = "polo_write" /\ ~mons[m].cancel
  /\ mons' = [mons EXCEPT ![m].pc = LoopTop.pc]
  /\ state' = LoopTop.state
  /\ ev' = Ev("mon_polo_written", 10 + m)
  /\ UNCHANGED <<client, links, queue, data_buffer, data, stop_event,
                 monitor_task, calls, nframes, dev, coord, wlog, frags>>

\* a loop that goes on to its next wait after a write that raised
MonWriteFailContinues(m) ==
  /\ mons[m].pc \in {"ack_write", "polo_write"} /\ ~mons[m].cancel
  /\ mons' = [mons EXCEPT ![m] = [NoMon EXCEPT !.pc = LoopTop.pc]]
  /\ state' = LoopTop.state
  /\ ev' = EvFrame("mon_write_fail", 10 + m, mons[m].frame, FALSE)
  /\ UNCHANGED <<client, links, queue, data_buffer, data, stop_event,
                 monitor_task, calls, nframes, dev, coord, wlog, frags>>

\* write_gatt_char raised: `except Exception: break` (client.py:439-444)
MonWriteFail(m) ==
  /\ mons[m].pc \in {"ack_write", "polo_write"} /\ ~mons[m].cancel
  /\ mons' = [mons EXCEPT ![m] = [NoMon EXCEPT !.pc = "done"]]
  /\ state' = "DISCONNECTED"
  /\ ev' = EvFrame("mon_write_fail", 10 + m, mons[m].frame, FALSE)
  /\ UNCHANGED <<client, links, queue, data_buffer, data, stop_event,
                 monitor_task, calls, nframes, dev, coord, wlog, frags>>

\* the timeout branch without its test of the link
MonTimeoutContinues(m) ==
  /\ mons[m].pc = "wait" /\ ~mons[m].cancel
  /\ queue = <<>>
  /\ mons' = [mons EXCEPT ![m].pc = LoopTop.pc]
  /\ state' = LoopTop.state
  /\ ev' = Ev("mon_timeout", 10 + m)
  /\ UNCHANGED <<client, links, queue, data_buffer, data, stop_event,
                 monitor_task, calls, nframes, dev, coord, wlog, frags>>

\* the 30 s wait ran out with the queue empty (client.py:429-435)
MonTimeout(m) ==
  /\ mons[m].pc = "wait" /\ ~mons[m].cancel
  /\ queue = <<>>
  /\ IF client # 0 /\ ~links[client].connected
     THEN /\ mons' = [mons EXCEPT ![m].pc = "done"]
          /\ state' = "DISCONNECTED"
     ELSE /\ mons' = [mons EXCEPT ![m].pc = LoopTop.pc]
          /\ state' = LoopTop.state
  /\ ev' = Ev("mon_timeout", 10 + m)
  /\ UNCHANGED <<client, links, queue, data_buffer, data, stop_event,
                 monitor_task, calls, nframes, dev, coord, wlog, frags>>

\* a loop that hands what it has accumulated to the decoder when it ends
MonCancelledFlushes(m) ==
  /\ mons[m].pc \in {"wait", "ack_write", "polo_write"} /\ mons[m].cancel
  /\ mons' = [mons EXCEPT ![m] = [NoMon EXCEPT !.pc = "done"]]
  /\ state' = "DISCONNECTED"
  /\ data_buffer' = <<>>
  /\ frags' = <<>>
  /\ ev' = Ev("mon_cancelled", 10 + m)
  /\ UNCHANGED <<client, links, queue, data, stop_event,
                 monitor_task, calls, nframes, dev, coord, wlog>>

\* CancelledError arrives at the await the task is suspended in
\* (client.py:436-438, 443-444)
MonCancelled(m) ==
  /\ mons[m].pc \in {"wait", "ack_write", "polo_write"} /\ mons[m].cancel
  /\ mons' = [mons EXCEPT ![m] = [NoMon EXCEPT !.pc = "done"]]
  /\ state' = "DISCONNECTED"
  /\ ev' = Ev("mon_cancelled", 10 + m)
  /\ UNCHANGED <<client, links, queue, data_buffer, data, stop_event,
                 monitor_task, calls, nframes, dev, coord, wlog, frags>>


\* ------------------------------------------------------------------------
\* connect() (client.py:446-491) and _authenticate (client.py:226-250),
\* run by caller task c
\* ------------------------------------------------------------------------
\* connect() returns: the call record of the caller afterwards
Returned(ret, why) == [IdleCall EXCEPT !.ret = ret, !.why = why]

\* asyncio.create_task(self._monitor_loop()): a task object not in use
FreeMons == {m \in MonIds : /\ mons[m].pc \in {"none", "done"}
                            /\ m # monitor_task
                            /\ \A c \in CallerIds : calls[c].mon # m}

NewMon == CHOOSE m \in FreeMons : \A n \in FreeMons : m <= n

\* a guard that answers from the state alone
ConnectNoopReturnsState(c) ==
  /\ calls[c].pc = "idle"
  /\ state # "DISCONNECTED"
  /\ calls' = [calls EXCEPT ![c] =
                 Returned(IF state = "CONNECTED" THEN "true" ELSE "false", "noop")]
  /\ ev' = Ev("connect_noop", c)
  /\ UNCHANGED <<state, client, links, queue, data_buffer, data, stop_event,
                 monitor_task, mons, nframes, dev, coord, wlog, frags>>

\* the state guard at the top of connect() (client.py:451-453)
ConnectNoop(c) ==
  /\ calls[c].pc = "idle"
  /\ state # "DISCONNECTED"
  /\ calls' = [calls EXCEPT ![c] =
                 Returned(IF IsConnected THEN "true" ELSE "false", "noop")]
  /\ ev' = Ev("connect_noop", c)
  /\ UNCHANGED <<state, client, links, queue, data_buffer, data, stop_event,
                 monitor_task, mons, nframes, dev, coord, wlog, frags>>

\* connect() up to `await establish_connection(...)` (client.py:455-470)
ConnectStart(c) ==
  /\ calls[c].pc = "idle"
  /\ state = "DISCONNECTED"
  /\ state' = "CONNECTING"
  /\ stop_event' = FALSE
  /\ calls' = [calls EXCEPT ![c] = [IdleCall EXCEPT !.pc = "establishing"]]
  /\ wlog' = <<>>
  /\ ev' = Ev("connect_start", c)
  /\ UNCHANGED <<client, links, queue, data_buffer, data, monitor_task, mons,
                 nframes, dev, coord, frags>>

\* establish_connection returned a connected client; start_notify is called
\* (client.py:465-476)
EstablishedAmong(c, n) ==
  /\ calls[c].pc = "establishing"
  /\ \E l \in 1..n :
       /\ links[l].st = "unused"
       /\ \A k \in 1..n : links[k].st = "unused" => l <= k
       /\ links' = [links EXCEPT ![l] =
                      [st |-> "open", connected |-> TRUE, notify |-> FALSE]]
       /\ client' = l
       /\ calls' = [calls EXCEPT ![c].pc = "subscribing", ![c].link = l]
  /\ ev' = Ev("established", c)
  /\ UNCHANGED <<state, queue, data_buffer, data, stop_event, monitor_task,
                 mons, nframes, dev, coord, wlog, frags>>

Established(c) == EstablishedAmong(c, MaxLinks)

\* an exception inside connect()'s try block (client.py:488-491):
\* establish_connection, start_notify or write_gatt_char raised
ConnectError(c) ==
  /\ calls[c].pc \in {"establishing", "subscribing", "ea_write",
                      "auth_ack_write", "token_write"}
  /\ state' = "DISCONNECTED"
  /\ calls' = [calls EXCEPT ![c] = Returned("false", "error")]
  /\ ev' = EvFrame("connect_error", c, calls[c].frame, FALSE)
  /\ UNCHANGED <<client, links, queue, data_buffer, data, stop_event,
                 monitor_task, mons, nframes, dev, coord, wlog, frags>>

\* the link has registered the notification callback
SubscribeOk(c) ==
  /\ calls[c].pc = "subscribing"
  /\ links[calls[c].link].connected
  /\ links' = [links EXCEPT ![calls[c].link].notify = TRUE]
  /\ calls' = [calls EXCEPT ![c].pc = "subscribed"]
  /\ ev' = Ev("subscribe_ok", c)
  /\ UNCHANGED <<state, client, queue, data_buffer, data, stop_event,
                 monitor_task, mons, nframes, dev, coord, wlog, frags>>

\* _authenticate up to the first wait (client.py:228-231)
AuthStart(c) ==
  /\ calls[c].pc = "subscribed"
  /\ state' = "AUTHENTICATING"
  /\ IF LinkUp
     THEN /\ wlog' = Written(c, <<AUTH_REQUEST>>)
          /\ calls' = [calls EXCEPT ![c].pc = "ea_write"]
     ELSE /\ wlog' = wlog
          /\ calls' = [calls EXCEPT ![c].pc = "auth_wait"]
  /\ ev' = Ev("auth_start", c)
  /\ UNCHANGED <<client, links, queue, data_buffer, data, stop_event,
                 monitor_task, mons, nframes, dev, coord, frags>>

\* the auth-request write returned
EaWritten(c) ==
  /\ calls[c].pc = "ea_write"
  /\ calls' = [calls EXCEPT ![c].pc = "auth_wait"]
  /\ ev' = Ev("ea_written", c)
  /\ UNCHANGED <<state, client, links, queue, data_buffer, data, stop_event,
                 monitor_task, mons, nframes, dev, coord, wlog, frags>>

\* _authenticate returned True: connect() starts the monitor loop and
\* returns True (client.py:240-242, 483-486)
AuthSucceeded(c) ==
  /\ FreeMons # {}
  /\ state' = "CONNECTED"
  /\ monitor_task' = NewMon
  /\ mons' = [mons EXCEPT ![NewMon] = [NoMon EXCEPT !.pc = "pending"]]
  /\ calls' = [calls EXCEPT ![c] = [Returned("true", "ok") EXCEPT !.acked = TRUE]]

\* the ACK frame is dequeued (client.py:236-239): the token is handed to the
\* link, or, with no link or the link down, _send_packet writes nothing
AuthAck(c) ==
  /\ calls[c].pc = "auth_wait"
  /\ queue # <<>> /\ Head(queue) = <<ACK>>
  /\ queue' = Tail(queue)
  /\ IF LinkUp
     THEN /\ wlog' = Written(c, AuthToken)
          /\ calls' = [calls EXCEPT ![c].pc = "token_write", ![c].acked = TRUE]
          /\ UNCHANGED <<state, monitor_task, mons>>
     ELSE /\ wlog' = wlog
          /\ AuthSucceeded(c)
  /\ ev' = EvFrame("auth_ack", c, Head(queue), LinkUp)
  /\ UNCHANGED <<client, links, data_buffer, data, stop_event, nframes, dev, coord, frags>>

\* the token write returned
TokenWritten(c) ==
  /\ calls[c].pc = "token_write"
  /\ AuthSucceeded(c)
  /\ ev' = Ev("token_written", c)
  /\ UNCHANGED <<client, links, queue, data_buffer, data, stop_event, nframes, dev, coord,
                 wlog, frags>>

\* any other frame is dequeued with the link up: the ACK is handed to the
\* link (client.py:243-245)
AuthData(c) ==
  /\ calls[c].pc = "auth_wait"
  /\ queue # <<>> /\ Head(queue) # <<ACK>>
  /\ LinkUp
  /\ queue' = Tail(queue)
  /\ wlog' = Written(c, <<ACK>>)
  /\ calls' = [calls EXCEPT ![c].pc = "auth_ack_write", ![c].frame = Head(queue)]
  /\ ev' = EvFrame("auth_data", c, Head(queue), TRUE)
  /\ UNCHANGED <<state, client, links, data_buffer, data, stop_event,
                 monitor_task, mons, nframes, dev, coord, frags>>

\* _process_packet(f) in the authentication loop (client.py:247); an
\* exception ends connect() through its except clause (client.py:488-491)
AuthProcessed(c, f, op, up, r) ==
  /\ data_buffer' = r.buf
  /\ data' = r.data
  /\ frags' = FragsAfter(f, r)
  /\ IF r.raised
     THEN /\ calls' = [calls EXCEPT ![c] = Returned("false", "error")]
          /\ state' = "DISCONNECTED"
     ELSE /\ calls' = [calls EXCEPT ![c].pc = "auth_wait", ![c].frame = NoFrame]
          /\ state' = state
  /\ ev' = EvProc(op, c, f, up, r)

AuthProcess(c, f, op, up) ==
  AuthProcessed(c, f, op, up, ProcessPacket(f, data_buffer, data))

\* the same with no link or the link down: _send_packet writes nothing
AuthDataNoLink(c) ==
  /\ calls[c].pc = "auth_wait"
  /\ queue # <<>> /\ Head(queue) # <<ACK>>
  /\ ~LinkUp
  /\ queue' = Tail(queue)
  /\ AuthProcess(c, Head(queue), "auth_data_nolink", FALSE)
  /\ UNCHANGED <<client, links, stop_event, monitor_task, mons, nframes, dev, coord, wlog>>

\* the ACK write returned
AuthAckWritten(c) ==
  /\ calls[c].pc = "auth_ack_write"
  /\ AuthProcess(c, calls[c].frame, "auth_ack_written", TRUE)
  /\ UNCHANGED <<client, links, queue, stop_event, monitor_task, mons,
                 nframes, dev, coord, wlog>>

\* ------------------------------------------------------------------------
\* disconnect() (client.py:493-519), called by caller task c, or by
\* connect() after a failed handshake (inner; client.py:479-481)
\* ------------------------------------------------------------------------
\* disconnect() returns; an inner one makes connect() return False
Finished(c, inner, why) ==
  IF inner THEN Returned("false", why) ELSE Returned("void", why)

\* client.py:507-519 up to the first await: stop_notify on a held link
\* that reports connected; with no link, or one that reports disconnected,
\* disconnect() ends without suspending
ClientPart(c, inner, why) ==
  IF client # 0 /\ links[client].connected
  THEN /\ calls' = [calls EXCEPT ![c] =
                      [IdleCall EXCEPT !.pc = "d_unsub", !.link = client,
                                       !.inner = inner, !.why = why]]
       /\ UNCHANGED <<client, state>>
  ELSE /\ calls' = [calls EXCEPT ![c] = Finished(c, inner, why)]
       /\ client' = 0
       /\ state' = "DISCONNECTED"

\* client.py:496-505 up to `await self._monitor_task`; a finished task is
\* awaited without suspending
DisconnectBegin(c, inner, why) ==
  /\ stop_event' = TRUE
  /\ IF monitor_task # 0 /\ mons[monitor_task].pc # "done"
     THEN /\ mons' = [mons EXCEPT ![monitor_task].cancel = TRUE]
          /\ calls' = [calls EXCEPT ![c] =
                         [IdleCall EXCEPT !.pc = "d_join", !.mon = monitor_task,
                                          !.inner = inner, !.why = why]]
          /\ UNCHANGED <<monitor_task, client, state>>
     ELSE /\ monitor_task' = 0
          /\ mons' = mons
          /\ ClientPart(c, inner, why)

\* the 10 s wait ran out with the queue empty: _authenticate returns False
\* and connect() awaits disconnect() (client.py:248-250, 479-481)
AuthTimeout(c) ==
  /\ calls[c].pc = "auth_wait"
  /\ queue = <<>>
  /\ DisconnectBegin(c, TRUE, "timeout")
  /\ ev' = Ev("auth_timeout", c)
  /\ UNCHANGED <<links, queue, data_buffer, data, nframes, dev, coord, wlog, frags>>

DisconnectCall(c) ==
  /\ calls[c].pc = "idle"
  /\ DisconnectBegin(c, FALSE, "disconnect")
  /\ ev' = Ev("disconnect", c)
  /\ UNCHANGED <<links, queue, data_buffer, data, nframes, dev, coord, wlog, frags>>

\* the awaited monitor task has ended (client.py:502-505)
DisconnectJoined(c) ==
  /\ calls[c].pc = "d_join"
  /\ mons[calls[c].mon].pc = "done"
  /\ monitor_task' = 0
  /\ ClientPart(c, calls[c].inner, calls[c].why)
  /\ ev' = Ev("disconnect_joined", c)
  /\ UNCHANGED <<links, queue, data_buffer, data, stop_event, mons, nframes, dev, coord,
                 wlog, frags>>

\* stop_notify returned: self._client.disconnect() is called, on whatever
\* self._client is now (client.py:511-512); on None the AttributeError is
\* swallowed (client.py:513-516)
DisconnectUnsubscribed(c) ==
  /\ calls[c].pc = "d_unsub"
  /\ links' = [links EXCEPT ![calls[c].link].notify = FALSE]
  /\ IF client # 0
     THEN /\ calls' = [calls EXCEPT ![c].pc = "d_close", ![c].link = client]
          /\ UNCHANGED <<client, state>>
     ELSE /\ calls' = [calls EXCEPT ![c] = Finished(c, calls[c].inner, calls[c].why)]
          /\ client' = 0
          /\ state' = "DISCONNECTED"
  /\ ev' = Ev("disconnect_unsubscribed", c)
  /\ UNCHANGED <<queue, data_buffer, data, stop_event, monitor_task, mons,
                 nframes, dev, coord, wlog, frags>>

\* disconnect() without its last assignment to self._state
DisconnectClosedKeepsState(c) ==
  /\ calls[c].pc = "d_close"
  /\ links' = [links EXCEPT ![calls[c].link] =
                 [st |-> "closed", connected |-> FALSE, notify |-> FALSE]]
  /\ calls' = [calls EXCEPT ![c] = Finished(c, calls[c].inner, calls[c].why)]
  /\ client' = 0
  /\ ev' = Ev("disconnect_closed", c)
  /\ UNCHANGED <<state, queue, data_buffer, data, stop_event, monitor_task, mons,
                 nframes, dev, coord, wlog, frags>>

\* disconnect() giving the engine a fresh DeviceData
DisconnectClosedClears(c) ==
  /\ calls[c].pc = "d_close"
  /\ links' = [links EXCEPT ![calls[c].link] =
                 [st |-> "closed", connected |-> FALSE, notify |-> FALSE]]
  /\ calls' = [calls EXCEPT ![c] = Finished(c, calls[c].inner, calls[c].why)]
  /\ client' = 0
  /\ state' = "DISCONNECTED"
  /\ data' = EmptyData
  /\ ev' = Ev("disconnect_closed", c)
  /\ UNCHANGED <<queue, data_buffer, stop_event, monitor_task, mons,
                 nframes, dev, coord, wlog, frags>>

\* BleakClient.disconnect() returned (client.py:512, 516-518)
DisconnectClosed(c) ==
  /\ calls[c].pc = "d_close"
  /\ links' = [links EXCEPT ![calls[c].link] =
                 [st |-> "closed", connected |-> FALSE, notify |-> FALSE]]
  /\ calls' = [calls EXCEPT ![c] = Finished(c, calls[c].inner, calls[c].why)]
  /\ client' = 0
  /\ state' = "DISCONNECTED"
  /\ ev' = Ev("disconnect_closed", c)
  /\ UNCHANGED <<queue, data_buffer, data, stop_event, monitor_task, mons,
                 nframes, dev, coord, wlog, frags>>

\* stop_notify or BleakClient.disconnect() raised (client.py:513-518)
DisconnectError(c) ==
  /\ calls[c].pc \in {"d_unsub", "d_close"}
  /\ calls' = [calls EXCEPT ![c] = Finished(c, calls[c].inner, calls[c].why)]
  /\ client' = 0
  /\ state' = "DISCONNECTED"
  /\ ev' = Ev("disconnect_error", c)
  /\ UNCHANGED <<links, queue, data_buffer, data, stop_event, monitor_task,
                 mons, nframes, dev, coord, wlog, frags>>

\* the task running connect() is cancelled at the await it is suspended in:
\* CancelledError is no Exception, so neither _authenticate (client.py:248)
\* nor connect() (client.py:488) catches it, and within the disconnect() of
\* a failed handshake only the finally clause runs (client.py:513-518)
ConnectCancelled(c) ==
  /\ \/ /\ calls[c].pc \in {"establishing", "subscribing", "ea_write", "auth_wait",
                            "auth_ack_write", "token_write"}
        /\ client' = client
     \/ /\ calls[c].pc \in {"d_unsub", "d_close"} /\ calls[c].inner
        /\ client' = 0
  /\ calls' = [calls EXCEPT ![c] = Returned("cancelled", "cancelled")]
  /\ ev' = Ev("connect_cancelled", c)
  /\ UNCHANGED <<state, links, queue, data_buffer, data, stop_event, monitor_task,
                 mons, nframes, dev, coord, wlog, frags>>

\* ------------------------------------------------------------------------
\* Specification: one caller task issues connect() and disconnect() calls
\* one after the other; the link delivers up to MaxFrames frames
\* ------------------------------------------------------------------------
Caller(c) ==
  \/ ConnectNoop(c) \/ ConnectStart(c) \/ Established(c) \/ ConnectError(c)
  \/ SubscribeOk(c) \/ AuthStart(c) \/ EaWritten(c) \/ AuthAck(c)
  \/ TokenWritten(c) \/ AuthData(c) \/ AuthDataNoLink(c) \/ AuthAckWritten(c)
  \/ AuthTimeout(c) \/ DisconnectCall(c) \/ DisconnectJoined(c)
  \/ DisconnectUnsubscribed(c) \/ DisconnectClosed(c) \/ DisconnectError(c)

Monitor(m) ==
  \/ MonStart(m) \/ MonKeepAlive(m) \/ MonSingleByte(m) \/ MonData(m)
  \/ MonDataNoLink(m) \/ MonAckWritten(m) \/ MonPoloWritten(m)
  \/ MonWriteFail(m) \/ MonTimeout(m) \/ MonCancelled(m)

Next ==
  \/ \E f \in Frames : NotificationCallback(f)
  \/ \E l \in LinkIds : LinkDrop(l)
  \/ Caller(1)
  \/ \E m \in MonIds : Monitor(m)

Spec == Init /\ [][Next]_vars

\* ------------------------------------------------------------------------
\* Specification: two caller tasks, whose connect() and disconnect() calls
\* interleave at every await; the link delivers frames of RaceFrames and
\* stays up until the engine closes it
\* ------------------------------------------------------------------------
RaceFrames == {AckFrame, KeepAliveFrame, FragFirst}

RaceEstablished(c) == EstablishedAmong(c, MaxRaceLinks)

RaceCaller(c) ==
  \/ ConnectNoop(c) \/ ConnectStart(c) \/ RaceEstablished(c) \/ ConnectError(c)
  \/ SubscribeOk(c) \/ AuthStart(c) \/ EaWritten(c) \/ AuthAck(c)
  \/ TokenWritten(c) \/ AuthData(c) \/ AuthDataNoLink(c) \/ AuthAckWritten(c)
  \/ AuthTimeout(c) \/ DisconnectCall(c) \/ DisconnectJoined(c)
  \/ DisconnectUnsubscribed(c) \/ DisconnectClosed(c) \/ DisconnectError(c)

RaceNext ==
  \/ \E f \in RaceFrames : NotificationCallback(f)
  \/ \E c \in CallerIds : RaceCaller(c)
  \/ \E m \in MonIds : Monitor(m)

RaceSpec == Init /\ [][RaceNext]_vars


\* ------------------------------------------------------------------------
\* Specification: one caller task, whose connect() may be cancelled at any
\* of its awaits
\* ------------------------------------------------------------------------
CancelNext ==
  \/ Next
  \/ ConnectCancelled(1)

CancelSpec == Init /\ [][CancelNext]_vars

\* ------------------------------------------------------------------------
\* Specification: a device that never sends the ACK frame and sends other
\* frames without end.  The record of the writes is not kept here (it would
\* grow without bound); every step of the engine that is ready is
\* eventually run by the event loop, and a wait that stays pending with the
\* queue empty eventually times out.
\* ------------------------------------------------------------------------
ChatterFrames == {KeepAliveFrame, FragUnknown}

\* _notification_callback for a frame of a device that does not stop
DeviceChatters(f) ==
  /\ Len(queue) < MaxQueue
  /\ \E l \in LinkIds : links[l].notify /\ links[l].connected
  /\ queue' = Append(queue, f)
  /\ ev' = EvFrame("notify", 0, f, LinkUp)
  /\ UNCHANGED <<state, client, links, data_buffer, data, stop_event,
                 monitor_task, calls, mons, nframes, dev, coord, wlog, frags>>

\* AuthData without the record of the ACK write (client.py:243-245)
ChatterAuthData(c) ==
  /\ calls[c].pc = "auth_wait"
  /\ queue # <<>> /\ Head(queue) # <<ACK>>
  /\ LinkUp
  /\ queue' = Tail(queue)
  /\ calls' = [calls EXCEPT ![c].pc = "auth_ack_write", ![c].frame = Head(queue)]
  /\ ev' = EvFrame("auth_data", c, Head(queue), TRUE)
  /\ UNCHANGED <<state, client, links, data_buffer, data, stop_event,
                 monitor_task, mons, nframes, dev, coord, wlog, frags>>

ChatterCaller(c) ==
  \/ ConnectStart(c) \/ Established(c) \/ SubscribeOk(c) \/ AuthStart(c)
  \/ EaWritten(c) \/ ChatterAuthData(c) \/ AuthAckWritten(c) \/ AuthTimeout(c)
  \/ DisconnectUnsubscribed(c) \/ DisconnectClosed(c)

ChatterNext ==
  \/ \E f \in ChatterFrames : DeviceChatters(f)
  \/ ChatterCaller(1)

\* weak fairness of AuthAckWritten(1), which is enabled exactly at the
\* position auth_ack_write and leaves it
AckWriteReturns == []<>(calls[1].pc # "auth_ack_write")

ChatterSpec ==
  /\ Init
  /\ [][ChatterNext]_vars
  /\ WF_vars(Established(1)) /\ WF_vars(SubscribeOk(1)) /\ WF_vars(AuthStart(1))
  /\ WF_vars(EaWritten(1)) /\ WF_vars(ChatterAuthData(1))
  /\ AckWriteReturns /\ WF_vars(AuthTimeout(1))
  /\ WF_vars(DisconnectUnsubscribed(1)) /\ WF_vars(DisconnectClosed(1))

\* ------------------------------------------------------------------------
\* The coordinators (chandler_system/__init__.py:74-120,
\* springwell_softener/__init__.py:73-115): tasks of Home Assistant run
\* the update path and the shutdown path, each under _connection_lock
\* ------------------------------------------------------------------------
\* asyncio.Lock: free while no task is inside `async with self._connection_lock`
LockFree == \A c \in CallerIds : coord[c] = "out"

\* a method entered without taking the lock
CoordEntersUnlocked(c, method) ==
  /\ coord[c] = "out"
  /\ calls[c].pc = "idle"
  /\ coord' = [coord EXCEPT ![c] = method]
  /\ calls' = [calls EXCEPT ![c] = IdleCall]
  /\ ev' = Ev(method, c)
  /\ UNCHANGED <<state, client, links, queue, data_buffer, data, stop_event,
                 monitor_task, mons, nframes, wlog, frags, dev>>

\* `async with self._connection_lock:` at the top of a method
CoordEnters(c, method) ==
  /\ LockFree
  /\ coord[c] = "out"
  /\ calls[c].pc = "idle"
  /\ coord' = [coord EXCEPT ![c] = method]
  /\ calls' = [calls EXCEPT ![c] = IdleCall]
  /\ ev' = Ev(method, c)
  /\ UNCHANGED <<state, client, links, queue, data_buffer, data, stop_event,
                 monitor_task, mons, nframes, wlog, frags, dev>>

\* the end of the `async with` block: the lock is released
CoordLeaves(c) ==
  /\ coord' = [coord EXCEPT ![c] = "out"]
  /\ ev' = Ev("leave", c)
  /\ UNCHANGED <<state, client, links, queue, data_buffer, data, stop_event,
                 monitor_task, calls, mons, nframes, wlog, frags, dev>>

\* _async_update_data / async_connect is entered
UpdateEnter(c) == CoordEnters(c, "update")

\* `if not self._client.is_connected: await self._client.connect()`
UpdateConnect(c) ==
  /\ coord[c] = "update"
  /\ calls[c].pc = "idle" /\ calls[c].ret = "none"
  /\ ~IsConnected
  /\ (ConnectStart(c) \/ ConnectNoop(c))

\* the method returns the data, or raises UpdateFailed when connect()
\* returned False
UpdateReturn(c) ==
  /\ coord[c] = "update"
  /\ calls[c].pc = "idle"
  /\ calls[c].ret # "none" \/ IsConnected
  /\ CoordLeaves(c)

\* async_shutdown / async_disconnect is entered
ShutdownEnter(c) == CoordEnters(c, "shutdown")

\* `await self._client.disconnect()`
ShutdownDisconnect(c) ==
  /\ coord[c] = "shutdown"
  /\ calls[c].pc = "idle" /\ calls[c].ret = "none"
  /\ DisconnectCall(c)

ShutdownReturn(c) ==
  /\ coord[c] = "shutdown"
  /\ calls[c].pc = "idle" /\ calls[c].ret # "none"
  /\ CoordLeaves(c)

\* the steps of the engine inside a call the coordinator made
CoordEngine(c) ==
  \/ RaceEstablished(c) \/ ConnectError(c)
  \/ SubscribeOk(c) \/ AuthStart(c) \/ EaWritten(c) \/ AuthAck(c)
  \/ TokenWritten(c) \/ AuthTimeout(c) \/ DisconnectJoined(c)
  \/ DisconnectUnsubscribed(c) \/ DisconnectClosed(c) \/ DisconnectError(c)

\* the steps of the monitor loop on ACK frames and timeouts
CoordMonitor(m) ==
  \/ MonStart(m) \/ MonSingleByte(m) \/ MonTimeout(m) \/ MonCancelled(m)

CoordTask(c) ==
  \/ UpdateEnter(c) \/ UpdateConnect(c) \/ UpdateReturn(c)
  \/ ShutdownEnter(c) \/ ShutdownDisconnect(c) \/ ShutdownReturn(c)
  \/ CoordEngine(c)

\* the device answers the handshake and is silent otherwise
CoordFrames == {AckFrame}

CoordNext ==
  \/ \E f \in CoordFrames : NotificationCallback(f)
  \/ \E l \in LinkIds : LinkDrop(l)
  \/ \E c \in CallerIds : CoordTask(c)
  \/ \E m \in MonIds : CoordMonitor(m)

CoordSpec == Init /\ [][CoordNext]_vars

\* ------------------------------------------------------------------------
\* The values exposed from the snapshot (const.py:100-117 and the sensor
\* descriptions, DeviceData.remaining_salt_pounds).  A float is named by
\* the fraction in lowest terms it is nearest to: true division is
\* correctly rounded, so equal fractions give equal floats.
\* ------------------------------------------------------------------------
RECURSIVE Gcd(_, _)
Gcd(a, b) == IF b = 0 THEN a ELSE Gcd(b, a % b)

Abs(n) == IF n < 0 THEN 0 - n ELSE n

FloatV(n, d) ==
  [t |-> "float", v |-> <<n \div Gcd(Abs(n), d), d \div Gcd(Abs(n), d)>>]

\* an arithmetic operator applied to a str, list or dict: TypeError, or a
\* repetition; the value is outside the numbers
NotANumber == [t |-> "other", v |-> 0]

IsNumber(val) == val.t \in {"int", "bool"}

NumOf(val) == IF val.t = "bool" THEN (IF val.v THEN 1 ELSE 0) ELSE val.v

\* value / d.0
TrueDiv(val, d) == IF IsNumber(val) THEN FloatV(NumOf(val), d) ELSE NotANumber

\* `value if value else`, the springwell form of the guard
HundredthsIfTruthy(val) == IF Truthy(val) THEN TrueDiv(val, 100) ELSE NoneV

\* _hundredths (const.py:100-102)
Hundredths(val) == IF val # NoneV THEN TrueDiv(val, 100) ELSE NoneV

\* _hundredths_or_zero (const.py:105-107)
HundredthsOrZero(val) == IF Truthy(val) THEN TrueDiv(val, 100) ELSE FloatV(0, 1)

\* _tenths (const.py:110-112)
Tenths(val) == IF val # NoneV THEN TrueDiv(val, 10) ELSE NoneV

\* _thousands (const.py:115-117)
Thousands(val) ==
  IF val = NoneV THEN NoneV
  ELSE IF IsNumber(val) THEN IntV(NumOf(val) * 1000)
  ELSE NotANumber

\* _hundredths of springwell_softener (const.py:87-89)
SpringwellHundredths(val) == IF Truthy(val) THEN TrueDiv(val, 100) ELSE NoneV

\* _hundredths_or_zero of springwell_softener (const.py:92-94): the default
\* is the integer 0
SpringwellHundredthsOrZero(val) == IF Truthy(val) THEN TrueDiv(val, 100) ELSE IntV(0)

\* _thousands of springwell_softener (const.py:97-99)
SpringwellThousands(val) ==
  IF ~Truthy(val) THEN NoneV
  ELSE IF IsNumber(val) THEN IntV(NumOf(val) * 1000)
  ELSE NotANumber

\* round(n / d.0) for d > 0: to the nearest integer, a tie to the even one
RoundHalfEven(n, d) ==
  IF 2 * (n % d) < d THEN n \div d
  ELSE IF 2 * (n % d) > d THEN (n \div d) + 1
  ELSE IF (n \div d) % 2 = 0 THEN n \div d
  ELSE (n \div d) + 1

\* DeviceData.remaining_salt_pounds (client.py:120-125)
RemainingSaltPounds(fields) ==
  IF fields["brine_tank_remaining_salt"] = NoneV THEN NoneV
  ELSE IF IsNumber(fields["brine_tank_remaining_salt"])
       THEN IntV(RoundHalfEven(NumOf(fields["brine_tank_remaining_salt"]), 10))
  ELSE NotANumber

\* min(100.0, n / d) for d > 0
MinHundred(n, d) == IF n > 100 * d THEN FloatV(100, 1) ELSE FloatV(n, d)

\* min(100.0, n / d) for d # 0
MinHundredOf(n, d) == IF d < 0 THEN MinHundred(0 - n, 0 - d) ELSE MinHundred(n, d)

\* DeviceData.salt_level_percent (client.py:127-134):
\* (remaining / 10.0 / total) * 100.0 is 10 * remaining / total
SaltLevelPercent(fields) ==
  IF \/ fields["brine_tank_remaining_salt"] = NoneV
     \/ ~Truthy(fields["brine_tank_total_salt"])
  THEN NoneV
  ELSE IF /\ IsNumber(fields["brine_tank_remaining_salt"])
          /\ IsNumber(fields["brine_tank_total_salt"])
       THEN MinHundredOf(10 * NumOf(fields["brine_tank_remaining_salt"]),
                         NumOf(fields["brine_tank_total_salt"]))
  ELSE NotANumber

\* DeviceData.capacity_remaining_percent (client.py:136-145):
\* (remaining / 100.0) / total * 100.0 is remaining / total
CapacityRemainingPercent(fields) ==
  IF \/ fields["total_gallons_remaining"] = NoneV
     \/ ~Truthy(fields["total_grains_capacity"])
  THEN NoneV
  ELSE IF ~(/\ IsNumber(fields["total_gallons_remaining"])
            /\ IsNumber(fields["total_grains_capacity"]))
       THEN NotANumber
  ELSE IF NumOf(fields["total_grains_capacity"]) * 1000 > 0
       THEN MinHundred(NumOf(fields["total_gallons_remaining"]),
                       NumOf(fields["total_grains_capacity"]) * 1000)
  ELSE NoneV

\* value_fn of the sensors that scale a field (const.py:130-307)
SensorValue(sensor, fields) ==
  CASE sensor = "water_used_today" -> Hundredths(fields["water_used_today"])
    [] sensor = "average_water_used" -> Hundredths(fields["average_water_used"])
    [] sensor = "total_gallons_remaining" -> Hundredths(fields["total_gallons_remaining"])
    [] sensor = "total_gallons" -> Hundredths(fields["total_gallons"])
    [] sensor = "gallons_since_last_regen" -> Hundredths(fields["gallons_since_last_regen"])
    [] sensor = "present_flow" -> HundredthsOrZero(fields["present_flow"])
    [] sensor = "peak_flow_daily" -> Hundredths(fields["peak_flow_daily"])
    [] sensor = "salt_remaining" -> Tenths(fields["brine_tank_remaining_salt"])
    [] sensor = "reserve_capacity_gallons" -> Hundredths(fields["reserve_capacity_gallons"])
    [] sensor = "total_grains_capacity" -> Thousands(fields["total_grains_capacity"])

\* sensor, the field it reads, the factor it divides by (0: times 1000)
ScaledSensors ==
  { <<"water_used_today", "water_used_today", 100>>,
    <<"average_water_used", "average_water_used", 100>>,
    <<"total_gallons_remaining", "total_gallons_remaining", 100>>,
    <<"total_gallons", "total_gallons", 100>>,
    <<"gallons_since_last_regen", "gallons_since_last_regen", 100>>,
    <<"present_flow", "present_flow", 100>>,
    <<"peak_flow_daily", "peak_flow_daily", 100>>,
    <<"salt_remaining", "brine_tank_remaining_salt", 10>>,
    <<"reserve_capacity_gallons", "reserve_capacity_gallons", 100>>,
    <<"total_grains_capacity", "total_grains_capacity", 0>> }

\* ------------------------------------------------------------------------
\* The decode path on its own: _process_packet applied to complete
\* one-fragment messages, from the state __init__ leaves.
\* ------------------------------------------------------------------------
\* messages processed over a behaviour
MaxMessages == 3

RECURSIVE Digits(_)
Digits(n) == IF n < 10 THEN <<48 + n>> ELSE Digits(n \div 10) \o <<48 + (n % 10)>>

NumText(n) == IF n < 0 THEN <<45>> \o Digits(0 - n) ELSE Digits(n)

\* "key":value
MemberText(key, valtext) == <<34>> \o key \o <<34, 58>> \o valtext

\* {"key":value}
ObjText(key, valtext) == <<123>> \o MemberText(key, valtext) \o <<125>>

KeyDbl == <<100, 98, 108>>

KeyDtgr == <<100, 116, 103, 114>>

KeyDbtr == <<100, 98, 116, 114>>

KeyAstg == <<97, 115, 116, 103>>

KeyGpf == <<103, 112, 102>>

KeyDria == <<100, 114, 105, 97>>

\* a key the field table does not hold
KeyUnknown == <<122, 122>>

NullText == <<110, 117, 108, 108>>

MsgEmptyObject == <<123, 125>>

MsgDbl == ObjText(KeyDbl, NumText(12000))

MsgDtgr == ObjText(KeyDtgr, NumText(500))

\* {"dbl":12000,"dtgr":500}
MsgBoth ==
  <<123>> \o MemberText(KeyDbl, NumText(12000)) \o <<44>>
          \o MemberText(KeyDtgr, NumText(500)) \o <<125>>

\* {"zz":7,"dbtr":135}
MsgUnknownAndKnown ==
  <<123>> \o MemberText(KeyUnknown, NumText(7)) \o <<44>>
          \o MemberText(KeyDbtr, NumText(135)) \o <<125>>

\* {"dbl":   : a text that is not JSON
MsgTruncated == <<123>> \o MemberText(KeyDbl, <<>>)

Messages ==
  { MsgEmptyObject, MsgDbl, MsgDtgr, MsgBoth, MsgUnknownAndKnown, MsgTruncated,
    ObjText(KeyDbl, NumText(0)),
    ObjText(KeyDtgr, NumText(0)), ObjText(KeyDtgr, NullText),
    ObjText(KeyDtgr, NumText(-250)),
    ObjText(KeyDbtr, NumText(123)), ObjText(KeyDbtr, NumText(125)),
    ObjText(KeyAstg, NumText(33)),
    ObjText(KeyGpf, NumText(0)), ObjText(KeyGpf, NumText(250)),
    ObjText(KeyDria, NumText(0)), ObjText(KeyDria, NumText(2)),
    ObjText(KeyUnknown, NumText(7)), ObjText(KeyUnknown, NumText(8)) }

\* the step record of a message: the text, the text of the step before, the
\* snapshot before the step, and what _process_packet did
Delivered(msg, r) ==
  /\ data_buffer' = r.buf
  /\ data' = r.data
  /\ nframes' = nframes + 1
  /\ dev' = dev
  /\ coord' = coord
  /\ ev' = [op |-> "deliver", task |-> 0, msg |-> msg,
            prev |-> IF ev.op = "deliver" THEN <<ev.msg>> ELSE <<>>,
            before |-> data, decoded |-> r.decoded, input |-> r.input,
            cb |-> r.cb, raised |-> r.raised]

\* _process_packet on the one-fragment message msg
DeliverMessage(msg) ==
  /\ nframes < MaxMessages
  /\ Delivered(msg, ProcessPacket(Fragment(HEADER_FIRST_PACKET + HEADER_LAST_PACKET, msg),
                                  data_buffer, data))
  /\ UNCHANGED <<state, client, links, queue, stop_event, monitor_task, calls,
                 mons, wlog, frags>>

DecodeNext == \E msg \in Messages : DeliverMessage(msg)

DecodeSpec == Init /\ [][DecodeNext]_vars

\* ------------------------------------------------------------------------
\* Vocabulary of the properties
\* ------------------------------------------------------------------------
MonTasks == {10 + m : m \in MonIds}

\* this step takes frame f from the head of the inbound queue
Dequeues(f) == queue # <<>> /\ Head(queue) = f /\ queue' = Tail(queue)

\* this step hands exactly one packet, pkt, to the link
WritesExactly(pkt) ==
  /\ Len(wlog') = Len(wlog) + 1
  /\ SubSeq(wlog', 1, Len(wlog)) = wlog
  /\ wlog'[Len(wlog')].pkt = pkt

\* a frame without its first byte and without its last two bytes
StripFraming(f) == [i \in 1..(Len(f) - 3) |-> f[i + 1]]

RECURSIVE ConcatStripped(_)
ConcatStripped(frs) ==
  IF frs = <<>> THEN <<>> ELSE StripFraming(Head(frs)) \o ConcatStripped(Tail(frs))

\* header bit 0x40
MarkedLast(f) == (f[1] \div 64) % 2 = 1

OnlyFinalMarked(frs) ==
  /\ frs # <<>>
  /\ \A i \in 1..Len(frs) : MarkedLast(frs[i]) <=> i = Len(frs)

IsMalformed(f) == Len(f) < 3 /\ f # <<224>> /\ f # <<204>>

TokenWrites == {i \in 1..Len(wlog) : wlog[i].pkt = AuthToken}

\* the task is suspended in the ACK write it issued for fragment f
PendingAck(task, f) ==
  \/ /\ task \in MonTasks
     /\ mons[task - 10].pc = "ack_write" /\ mons[task - 10].frame = f
  \/ /\ task \in CallerIds
     /\ calls[task].pc = "auth_ack_write" /\ calls[task].frame = f

\* the bytes are not valid UTF-8 or not a JSON text
DecodeFails(b) == ~Utf8Valid(b, 1) \/ ~JsonLoads(b).ok

\* ------------------------------------------------------------------------
\* C1  Reassembly.  The buffer always holds the stripped payloads of the
\* fragments processed since it was last empty; a decode happens exactly
\* when a fragment with header bit 0x40 is processed; and for fragments
\* f1..fn accumulated from an empty buffer with only fn marked last, the
\* bytes handed to the decoder are payload(f1) ++ ... ++ payload(fn).
\* ------------------------------------------------------------------------
ReassemblyExact ==
  /\ data_buffer = ConcatStripped(frags)
  /\ (ev.processed /\ Len(ev.frame) >= 3) =>
       /\ ev.decoded <=> MarkedLast(ev.frame)
       /\ (ev.decoded /\ OnlyFinalMarked(ev.frs)) =>
            ev.input = ConcatStripped(ev.frs)

\* a message of two fragments was reassembled, decoded and merged
ReassemblyWitness ==
  /\ ev.decoded /\ ev.cb
  /\ Len(ev.frs) = 2 /\ OnlyFinalMarked(ev.frs)
  /\ ev.input = <<123, 34, 100, 98, 108, 34, 58, 53, 125>>

\* ------------------------------------------------------------------------
\* C2  Per-fragment flow control, as claimed: whatever the state of the
\* link, dequeuing a data fragment writes exactly one ACK byte.
\* ------------------------------------------------------------------------
AckWhateverTheLink ==
  [][\A f \in Frames : (Dequeues(f) /\ Len(f) >= 3) => WritesExactly(<<204>>)]_vars

\* ------------------------------------------------------------------------
\* C3  Handshake, as claimed: the first write of an attempt is 0xEA, the
\* token is written at most once and only after an ACK frame was received,
\* and state is Connected only if the token was written to the link.
\* ------------------------------------------------------------------------
HandshakeAsClaimed ==
  /\ wlog # <<>> => wlog[1].pkt = <<234>>
  /\ Cardinality(TokenWrites) <= 1
  /\ TokenWrites # {} => \E c \in CallerIds : calls[c].acked
  /\ state = "CONNECTED" => TokenWrites # {}

\* ------------------------------------------------------------------------
\* C4  Pre-authentication data, as claimed: when the authentication loop
\* processes a data fragment it has ACKed, state stays Authenticating.
\* ------------------------------------------------------------------------
PreAuthStaysAuthenticating ==
  [][\A c \in CallerIds :
        (ev'.processed /\ ev'.task = c /\ Len(ev'.frame) >= 3
           /\ PendingAck(c, ev'.frame))
          => state' = "AUTHENTICATING"]_vars

\* ------------------------------------------------------------------------
\* C5  Handshake timeout.  From the timeout on, for the rest of that
\* connect() call and after it returned: the token was not written in the
\* attempt, state is not Connected, no monitor task exists that has not
\* ended; and when connect() has returned it returned False with state
\* Disconnected.
\* ------------------------------------------------------------------------
HandshakeTimeoutFails ==
  \A c \in CallerIds :
     calls[c].why = "timeout" =>
       /\ TokenWrites = {}
       /\ state # "CONNECTED"
       /\ \A m \in MonIds : mons[m].pc \in {"none", "done"}
       /\ calls[c].pc = "idle" =>
            /\ calls[c].ret = "false"
            /\ state = "DISCONNECTED"
            /\ client = 0

\* connect() returned after a timeout of a handshake whose 0xEA was written
HandshakeTimeoutWitness ==
  /\ calls[1].why = "timeout" /\ calls[1].pc = "idle"
  /\ Len(wlog) = 1 /\ wlog[1].pkt = <<234>>
  /\ links[1].st = "closed"

\* ------------------------------------------------------------------------
\* C6  Keep-alive in steady state, as claimed: the monitor loop dequeuing
\* 0xE0 writes exactly one byte 0xF0 and changes neither buffer, snapshot
\* nor state.
\* ------------------------------------------------------------------------
PongAlways ==
  [][(Dequeues(<<224>>) /\ ev'.task \in MonTasks) =>
        /\ WritesExactly(<<240>>)
        /\ UNCHANGED <<data_buffer, data, state>>]_vars

\* ------------------------------------------------------------------------
\* C7  Keep-alive and malformed frames during authentication, as claimed:
\* the authentication loop dequeuing 0xE0 writes one 0xF0 when the link is
\* up, and dequeuing 0xE0 or a malformed frame never writes 0xCC.
\* ------------------------------------------------------------------------
AuthHandlesLikeSteadyState ==
  [][\A f \in Frames :
        (Dequeues(f) /\ ev'.task \in CallerIds /\ (f = <<224>> \/ IsMalformed(f))) =>
           /\ ~WritesExactly(<<204>>)
           /\ (f = <<224>> /\ LinkUp) => WritesExactly(<<240>>)]_vars

\* ------------------------------------------------------------------------
\* C8  Malformed frames in steady state, as claimed: the monitor loop
\* dequeuing a frame shorter than 3 bytes that is neither 0xE0 nor 0xCC
\* writes nothing and changes neither buffer, snapshot nor state.
\* ------------------------------------------------------------------------
MalformedDroppedSilently ==
  [][\A f \in Frames :
        (Dequeues(f) /\ ev'.task \in MonTasks /\ IsMalformed(f)) =>
           /\ wlog' = wlog
           /\ UNCHANGED <<data_buffer, data, state>>]_vars

\* ------------------------------------------------------------------------
\* C9  Decode failure.  When the bytes of a completed message are not
\* valid UTF-8 or not valid JSON: snapshot fields and raw mapping are
\* unchanged, the data callback is not invoked, the buffer is cleared, and
\* the loop that processed it goes on to its next wait with the state it
\* had (Connected for the monitor loop).
\* ------------------------------------------------------------------------
DecodeFailureAbsorbed ==
  [][(ev'.decoded /\ DecodeFails(ev'.input)) =>
        /\ data' = data
        /\ ~ev'.cb
        /\ data_buffer' = <<>>
        /\ ev'.task \in MonTasks =>
             /\ state' = "CONNECTED"
             /\ mons'[ev'.task - 10].pc = "wait"
        /\ ev'.task \in CallerIds =>
             /\ state' = state
             /\ calls'[ev'.task].pc = "auth_wait"]_vars

\* the monitor loop has absorbed a message that does not decode and waits
\* for the next frame
DecodeFailureWitness ==
  /\ ev.decoded /\ DecodeFails(ev.input) /\ ev.input # <<>>
  /\ ev.task \in MonTasks
  /\ state = "CONNECTED"
  /\ mons[ev.task - 10].pc = "wait"

\* ------------------------------------------------------------------------
\* C10  After a last fragment, as claimed: once the monitor loop has
\* processed a fragment with the last bit that it dequeued with the link
\* up, the buffer is empty and state is still Connected.
\* ------------------------------------------------------------------------
BufferClearedAlways ==
  (ev.processed /\ Len(ev.frame) >= 3 /\ MarkedLast(ev.frame)
     /\ ev.task \in MonTasks /\ ev.up) =>
       /\ data_buffer = <<>>
       /\ state = "CONNECTED"

\* ------------------------------------------------------------------------
\* Vocabulary of the decode properties
\* ------------------------------------------------------------------------
KeysOf(jv) == {jv.v[i].k : i \in 1..Len(jv.v)}

TableKeys == {FieldTable[i].key : i \in 1..Len(FieldTable)}

FieldOfKey(k) == FieldTable[CHOOSE i \in 1..Len(FieldTable) : FieldTable[i].key = k].field

FieldsNamedBy(jv) == {FieldOfKey(k) : k \in KeysOf(jv) \cap TableKeys}

BoolFields == {"regen_in_aeration", "regen_soak_mode", "prefill_enabled",
               "auto_reserve_mode", "display_off", "regen_active"}

\* the last step processed a message whose text is a JSON value
DeliveredJson == ev.op = "deliver" /\ JsonLoads(ev.msg).ok

\* from snapshot before to snapshot after, only what object jv names changed
MergedPartially(jv, before, after) ==
  /\ \A fn \in FieldNames \ FieldsNamedBy(jv) : after.fields[fn] = before.fields[fn]
  /\ \A k \in DOMAIN before.raw :
        /\ k \in DOMAIN after.raw
        /\ k.v \notin KeysOf(jv) => after.raw[k] = before.raw[k]
  /\ jv.v = <<>> => after = before

\* every recognised member of jv is in its field as it came, but for bool()
StoredVerbatim(jv, d) ==
  \A i \in 1..Len(jv.v) :
     jv.v[i].k \in TableKeys =>
        d.fields[FieldOfKey(jv.v[i].k)] =
           IF FieldOfKey(jv.v[i].k) \in BoolFields
           THEN [t |-> "bool", v |-> Truthy(jv.v[i].v)]
           ELSE jv.v[i].v

\* ------------------------------------------------------------------------
\* C11  The merge is partial and idempotent.  Decoding a JSON object leaves
\* every field whose key is not in the object, and every raw entry whose
\* key is not in the object, as it was; decoding the same object a second
\* time in a row changes nothing; decoding {} changes nothing.
\* ------------------------------------------------------------------------
MergePartialIdempotent ==
  DeliveredJson =>
     /\ MergedPartially(JsonLoads(ev.msg).val, ev.before, data)
     /\ ev.prev = <<ev.msg>> => data = ev.before

\* {"dbl":12000} was decoded twice in a row over a snapshot that holds dtgr
MergeWitness ==
  /\ ev.op = "deliver" /\ ev.cb
  /\ ev.msg = MsgDbl /\ ev.prev = <<MsgDbl>>
  /\ data.fields["total_gallons_remaining"] = [t |-> "int", v |-> 500]
  /\ data.fields["battery_level_mv"] = [t |-> "int", v |-> 12000]

\* ------------------------------------------------------------------------
\* C12  Scale transform in the merge, as claimed: after decoding
\* {"dtgr":500} the field total_gallons_remaining holds 5.0, and after
\* decoding {"dbl":12000} the field battery_level_mv holds 12000.
\* ------------------------------------------------------------------------
MergeScalesAsClaimed ==
  /\ (ev.op = "deliver" /\ ev.msg = MsgDtgr) =>
        data.fields["total_gallons_remaining"] = [t |-> "float", v |-> <<5, 1>>]
  /\ (ev.op = "deliver" /\ ev.msg = MsgDbl) =>
        data.fields["battery_level_mv"] = [t |-> "int", v |-> 12000]

\* C12 amended.  The merge writes the value of each recognised key into its
\* field as it came (through bool() for the six boolean fields) and applies
\* no scale: after decoding {"dtgr":500} the field total_gallons_remaining
\* holds 500, and the sensor that reads it gives 5.0; after decoding
\* {"dbl":12000} the field battery_level_mv holds 12000.
MergeStoresRaw ==
  /\ DeliveredJson => StoredVerbatim(JsonLoads(ev.msg).val, data)
  /\ (ev.op = "deliver" /\ ev.msg = MsgDtgr) =>
        /\ data.fields["total_gallons_remaining"] = [t |-> "int", v |-> 500]
        /\ SensorValue("total_gallons_remaining", data.fields)
              = [t |-> "float", v |-> <<5, 1>>]
  /\ (ev.op = "deliver" /\ ev.msg = MsgDbl) =>
        data.fields["battery_level_mv"] = [t |-> "int", v |-> 12000]

\* {"dtgr":500} has just been decoded
MergeStoresRawWitness ==
  /\ ev.op = "deliver" /\ ev.msg = MsgDtgr /\ ev.cb
  /\ data.fields["total_gallons_remaining"] = [t |-> "int", v |-> 500]
  /\ data.raw[[t |-> "str", v |-> KeyDtgr]] = [t |-> "int", v |-> 500]

\* ------------------------------------------------------------------------
\* Vocabulary of the exposure properties
\* ------------------------------------------------------------------------
\* the value a sensor of factor k owes to the raw integer n
Scaled(n, k) ==
  IF k = 0 THEN [t |-> "int", v |-> n * 1000]
  ELSE [t |-> "float", v |-> <<n \div Gcd(Abs(n), k), k \div Gcd(Abs(n), k)>>]

\* n is an integer nearest to v / 10
NearestTenth(n, v) == 10 * n - v <= 5 /\ v - 10 * n <= 5

\* raw integers are exposed scaled
IntegersScaled ==
  /\ \A ss \in ScaledSensors :
        data.fields[ss[2]].t = "int" =>
           SensorValue(ss[1], data.fields) = Scaled(data.fields[ss[2]].v, ss[3])
  /\ data.fields["brine_tank_remaining_salt"].t = "int" =>
        /\ RemainingSaltPounds(data.fields).t = "int"
        /\ NearestTenth(RemainingSaltPounds(data.fields).v,
                        data.fields["brine_tank_remaining_salt"].v)
  /\ data.fields["brine_tank_remaining_salt"] = [t |-> "int", v |-> 123] =>
        RemainingSaltPounds(data.fields) = [t |-> "int", v |-> 12]

\* ------------------------------------------------------------------------
\* C13  Exposed scale transforms, as claimed: raw integers are exposed
\* scaled (v/100, v/10 rounded, v*1000), and an absent field is exposed as
\* absent.
\* ------------------------------------------------------------------------
ExposedAsClaimed ==
  /\ IntegersScaled
  /\ \A ss \in ScaledSensors :
        data.fields[ss[2]] = NoneV => SensorValue(ss[1], data.fields) = NoneV
  /\ data.fields["brine_tank_remaining_salt"] = NoneV =>
        RemainingSaltPounds(data.fields) = NoneV

\* C13 amended.  For every raw integer v a hundredths field is exposed as
\* v/100, remaining_salt_pounds is v/10 rounded to an integer (123 gives
\* 12) and total_grains_capacity is exposed as v*1000; an absent field is
\* exposed as absent, except present_flow (gpf), which is exposed as 0.0
\* when it is absent.
ExposedScaled ==
  /\ IntegersScaled
  /\ \A ss \in ScaledSensors :
        data.fields[ss[2]] = NoneV =>
           SensorValue(ss[1], data.fields) =
              IF ss[1] = "present_flow" THEN [t |-> "float", v |-> <<0, 1>>]
              ELSE NoneV
  /\ data.fields["brine_tank_remaining_salt"] = NoneV =>
        RemainingSaltPounds(data.fields) = NoneV

\* the snapshot holds dtgr 0, dbtr 123 and astg 33, and no gpf
ExposedWitness ==
  /\ data.fields["total_gallons_remaining"] = [t |-> "int", v |-> 0]
  /\ data.fields["brine_tank_remaining_salt"] = [t |-> "int", v |-> 123]
  /\ data.fields["total_grains_capacity"] = [t |-> "int", v |-> 33]
  /\ data.fields["present_flow"] = NoneV
  /\ SensorValue("total_grains_capacity", data.fields) = [t |-> "int", v |-> 33000]

\* ------------------------------------------------------------------------
\* Specification: one connect() against a device that sends its next data
\* fragment only after an ACK byte has reached it since the previous one;
\* its other frames come at any time.  The link stays up, writes return
\* and the caller makes no second call.
\* ------------------------------------------------------------------------
\* data fragments the device sends over a behaviour
MaxFragments == 2

DeviceFragments == {FragFirst, FragLast}

DeviceChatter == {AckFrame, KeepAliveFrame}

\* ACK bytes handed to the link since connect() began
AcksWritten == Cardinality({i \in 1..Len(wlog) : wlog[i].pkt = <<ACK>>})

\* _notification_callback (client.py:207-210) for a data fragment f of the
\* waiting device; the protocol's ACK is the bare byte 0xCC, so the device
\* takes any ACK byte written after its latest fragment for the answer
DeviceSends(f) ==
  /\ dev.sent < MaxFragments
  /\ dev.sent = 0 \/ AcksWritten > dev.mark
  /\ Len(queue) < MaxQueue
  /\ \E l \in LinkIds : links[l].notify /\ links[l].connected
  /\ queue' = Append(queue, f)
  /\ dev' = [sent |-> dev.sent + 1, mark |-> AcksWritten]
  /\ coord' = coord
  /\ ev' = EvFrame("notify", 0, f, LinkUp)
  /\ UNCHANGED <<state, client, links, data_buffer, data, stop_event,
                 monitor_task, calls, mons, nframes, wlog, frags>>

DeviceCaller(c) ==
  \/ ConnectStart(c) \/ Established(c) \/ SubscribeOk(c) \/ AuthStart(c)
  \/ EaWritten(c) \/ AuthAck(c) \/ TokenWritten(c) \/ AuthData(c)
  \/ AuthAckWritten(c)

DeviceMonitor(m) ==
  \/ MonStart(m) \/ MonKeepAlive(m) \/ MonSingleByte(m) \/ MonData(m)
  \/ MonAckWritten(m) \/ MonPoloWritten(m) \/ MonTimeout(m)

DeviceNext ==
  \/ \E f \in DeviceChatter : NotificationCallback(f)
  \/ \E f \in DeviceFragments : DeviceSends(f)
  \/ DeviceCaller(1)
  \/ \E m \in MonIds : DeviceMonitor(m)

DeviceSpec == Init /\ [][DeviceNext]_vars

\* ------------------------------------------------------------------------
\* Vocabulary of the session properties
\* ------------------------------------------------------------------------
\* the bytes are a JSON text
DecodesAsJson(b) == Utf8Valid(b, 1) /\ JsonLoads(b).ok

\* the bytes are a JSON object with a key the field table does not hold
ObjectWithUnknownKey(b) ==
  /\ DecodesAsJson(b)
  /\ JsonLoads(b).val.t = "obj"
  /\ KeysOf(JsonLoads(b).val) \ TableKeys # {}

\* every member of object jv is in the raw mapping d.raw with its value
AllMembersInRaw(jv, d) ==
  \A i \in 1..Len(jv.v) :
     /\ [t |-> "str", v |-> jv.v[i].k] \in DOMAIN d.raw
     /\ d.raw[[t |-> "str", v |-> jv.v[i].k]] = jv.v[i].v

\* a disconnect() call of caller c is suspended in one of its awaits
Disconnecting(c) == calls[c].pc \in {"d_join", "d_unsub", "d_close"}

NoMonitorRunning == \A m \in MonIds : mons[m].pc \in {"none", "done"}

\* ------------------------------------------------------------------------
\* C14  Event Sink, as claimed: the callback is invoked for every completed
\* message that decodes as UTF-8 and JSON, and at no other time.
\* ------------------------------------------------------------------------
CallbackPerDecodedMessage ==
  /\ (ev.decoded /\ DecodesAsJson(ev.input)) => ev.cb
  /\ ev.cb => (ev.processed /\ ev.decoded /\ DecodesAsJson(ev.input))

\* ------------------------------------------------------------------------
\* C15  Unknown keys.  Decoding a JSON object that has a key outside the
\* field table stores every member of the object in the raw mapping,
\* leaves every field the object does not name as it was, and leaves the
\* loop that decoded it at its wait (the monitor loop in state Connected);
\* and no step ever removes a key from the raw mapping.
\* ------------------------------------------------------------------------
UnknownKeysAbsorbed ==
  [][/\ \A k \in DOMAIN data.raw : k \in DOMAIN data'.raw
     /\ (ev'.decoded /\ ObjectWithUnknownKey(ev'.input)) =>
          /\ AllMembersInRaw(JsonLoads(ev'.input).val, data')
          /\ \A fn \in FieldNames \ FieldsNamedBy(JsonLoads(ev'.input).val) :
                data'.fields[fn] = data.fields[fn]
          /\ ev'.cb
          /\ ev'.task \in MonTasks =>
               /\ state' = "CONNECTED"
               /\ mons'[ev'.task - 10].pc = "wait"
          /\ ev'.task \in CallerIds =>
               /\ state' = state
               /\ calls'[ev'.task].pc = "auth_wait"]_vars

\* the monitor loop has decoded {"zz":7} and waits for the next frame
UnknownKeysWitness ==
  /\ ev.decoded /\ ev.frame = FragUnknown /\ ev.task \in MonTasks
  /\ state = "CONNECTED"
  /\ data.raw[[t |-> "str", v |-> <<122, 122>>]] = [t |-> "int", v |-> 7]
  /\ \A fn \in FieldNames : data.fields[fn] = NoneV

\* ------------------------------------------------------------------------
\* C16  The snapshot changes only in a step that decodes a completed
\* message as JSON: connect(), disconnect(), a failed handshake, a wait
\* timeout, a link failure and a reconnect leave fields and raw mapping as
\* they were.
\* ------------------------------------------------------------------------
SnapshotOnlyMerged ==
  [][data' # data =>
       (ev'.processed /\ ev'.decoded /\ DecodesAsJson(ev'.input))]_vars

\* a filled snapshot after disconnect() has closed the link
SnapshotKeptWitness ==
  /\ data # EmptyData
  /\ state = "DISCONNECTED" /\ client = 0
  /\ calls[1].pc = "idle" /\ calls[1].why = "disconnect"
  /\ links[1].st = "closed"

\* ------------------------------------------------------------------------
\* C17  disconnect() when already Disconnected, as claimed: it performs no
\* link operation and changes neither state, buffer nor snapshot.
\* ------------------------------------------------------------------------
DisconnectNoopWhenDisconnected ==
  [][(ev'.op = "disconnect" /\ state = "DISCONNECTED") =>
        /\ calls'[ev'.task].pc = "idle"
        /\ UNCHANGED <<state, data_buffer, data, links>>]_vars

\* ------------------------------------------------------------------------
\* C18  Disconnect ordering, as claimed: while a disconnect() is in
\* progress, no monitor loop runs once the link is being unsubscribed or
\* closed, and state becomes Disconnected only in a step after which the
\* link is closed and no longer held (a link operation that raises apart).
\* ------------------------------------------------------------------------
DisconnectedOnlyAfterClose ==
  [][\A c \in CallerIds :
        /\ calls'[c].pc \in {"d_unsub", "d_close"} => NoMonitorRunning'
        /\ (Disconnecting(c) /\ state # "DISCONNECTED" /\ state' = "DISCONNECTED"
              /\ ev'.op # "disconnect_error") =>
             /\ client' = 0
             /\ \A l \in LinkIds : links'[l].st # "open"]_vars

\* ------------------------------------------------------------------------
\* C19  Stop request.  Once stop is signalled, the next step of the monitor
\* loop ends it; the step that ends it hands nothing to the decoder and
\* leaves the buffer as it is; and while stop is signalled no step decodes,
\* merges or invokes the data callback.
\* ------------------------------------------------------------------------
StopEndsLoop ==
  [][stop_event =>
       /\ UNCHANGED <<data, data_buffer>>
       /\ ~ev'.decoded /\ ~ev'.cb
       /\ \A m \in MonIds : mons'[m] # mons[m] => mons'[m].pc = "done"]_vars

\* the loop was stopped with half a message in the buffer
StopWitness ==
  /\ ev.op = "mon_cancelled" /\ stop_event
  /\ data_buffer = <<123, 34, 100, 98, 108, 34>>
  /\ data = EmptyData
  /\ mons[ev.task - 10].pc = "done"

\* ------------------------------------------------------------------------
\* C20  Wait timeout in steady state.  When the monitor loop's wait times
\* out and the link reports connected, the loop waits again with state
\* Connected and the buffer unchanged; when the link reports disconnected,
\* the loop ends and state becomes Disconnected.
\* ------------------------------------------------------------------------
WaitTimeout ==
  [][\A m \in MonIds :
        (ev'.op = "mon_timeout" /\ ev'.task = 10 + m) =>
           /\ UNCHANGED <<data_buffer, data, wlog, queue>>
           /\ client # 0
           /\ IF links[client].connected
              THEN /\ state = "CONNECTED" /\ state' = "CONNECTED"
                   /\ mons'[m].pc = "wait"
              ELSE /\ state' = "DISCONNECTED"
                   /\ mons'[m].pc = "done"]_vars

\* the wait timed out on a link that reports disconnected
WaitTimeoutWitness ==
  /\ ev.op = "mon_timeout"
  /\ client # 0 /\ ~links[client].connected
  /\ state = "DISCONNECTED"
  /\ mons[ev.task - 10].pc = "done"

\* ------------------------------------------------------------------------
\* Vocabulary of the steady-state properties
\* ------------------------------------------------------------------------
\* no connect() or disconnect() call is in progress
CallersIdle == \A c \in CallerIds : calls[c].pc = "idle"

\* the steps in which a caller task enters connect() or disconnect()
CallSteps == {"connect_start", "connect_noop", "disconnect"}

AuthLoops ==
  {c \in CallerIds :
     calls[c].pc \in {"ea_write", "auth_wait", "auth_ack_write", "token_write"}}

\* the monitor tasks inside the loop of _monitor_loop
MonLoops == {m \in MonIds : mons[m].pc \in {"wait", "ack_write", "polo_write"}}

\* ------------------------------------------------------------------------
\* C22  Single consumer, as claimed: under every interleaving of connect()
\* and disconnect() calls at most one authentication loop or monitor loop
\* is running at any moment.
\* ------------------------------------------------------------------------
SingleConsumer == Cardinality(AuthLoops) + Cardinality(MonLoops) <= 1

\* ------------------------------------------------------------------------
\* Vocabulary of the ordering properties
\* ------------------------------------------------------------------------
\* no loop holds a dequeued frame it has not finished handling, or waits
\* for a write to return
NothingInHand ==
  /\ \A m \in MonIds : mons[m].pc \notin {"ack_write", "polo_write"}
  /\ \A c \in CallerIds :
        calls[c].pc \notin {"ea_write", "auth_ack_write", "token_write"}

\* the latest packet handed to the link is an ACK byte written by task t
AckWrittenLast(t) ==
  /\ wlog # <<>>
  /\ wlog[Len(wlog)].by = t
  /\ wlog[Len(wlog)].pkt = <<ACK>>

\* ------------------------------------------------------------------------
\* C23  Arrival order.  The notification callback appends at the tail of
\* the queue; every other step that changes the queue removes its head, and
\* the head is the frame that step handles; a frame is removed only when no
\* loop has a frame in hand or a write outstanding; and when a fragment is
\* appended to the buffer with the link up, its ACK is the latest packet
\* written, so ACK, append and decode of a fragment all precede the next
\* dequeue.
\* ------------------------------------------------------------------------
ArrivalOrder ==
  [][/\ ev'.op = "notify" => queue' = Append(queue, ev'.frame)
     /\ (queue' # queue /\ ev'.op # "notify") =>
          /\ queue # <<>>
          /\ queue' = Tail(queue)
          /\ ev'.frame = Head(queue)
          /\ NothingInHand
     /\ (ev'.processed /\ queue' = queue) =>
          /\ ev'.task \in MonTasks =>
               /\ mons[ev'.task - 10].pc = "ack_write"
               /\ mons[ev'.task - 10].frame = ev'.frame
          /\ ev'.task \in CallerIds =>
               /\ calls[ev'.task].pc = "auth_ack_write"
               /\ calls[ev'.task].frame = ev'.frame
          /\ AckWrittenLast(ev'.task)
     /\ (ev'.processed /\ Len(ev'.frame) >= 3 /\ ~ev'.decoded) =>
          data_buffer' = data_buffer \o Payload(ev'.frame)]_vars

\* two fragments were in the queue and the step just taken removed the
\* one enqueued first and handed its ACK to the link
ArrivalOrderWitness ==
  /\ ev.op \in {"auth_data", "mon_data"} /\ ev.frame = FragFirst
  /\ queue = <<FragLast>>
  /\ data_buffer = <<>>
  /\ AckWrittenLast(ev.task)

\* ------------------------------------------------------------------------
\* C24  State transitions, as claimed: in every behaviour, concurrent calls
\* included, state changes only to Disconnected, from Disconnected to
\* Connecting, from Connecting to Authenticating, or from Authenticating to
\* Connected in the step that ends a handshake in which the ACK frame was
\* received.
\* ------------------------------------------------------------------------
StateTransitions ==
  [][state' # state =>
       \/ state' = "DISCONNECTED"
       \/ state = "DISCONNECTED" /\ state' = "CONNECTING"
       \/ state = "CONNECTING" /\ state' = "AUTHENTICATING"
       \/ /\ state = "AUTHENTICATING" /\ state' = "CONNECTED"
          /\ ev'.op \in {"auth_ack", "token_written"}]_vars

\* ------------------------------------------------------------------------
\* Vocabulary of the flow-control property
\* ------------------------------------------------------------------------
\* the data fragments the device has sent and the engine has not answered
\* with an ACK byte.  A fragment's ACK is handed to the link in the step
\* that dequeues it (client.py:243-245, 423-424), the link being up in
\* every behaviour of DeviceSpec, so these are the fragments in the queue.
Unacknowledged == Cardinality({i \in 1..Len(queue) : Len(queue[i]) >= 3})

\* ------------------------------------------------------------------------
\* C25  Flow control, as claimed: with a device that sends its next data
\* fragment only after an ACK byte reached it, the number of fragments
\* sent and not answered with an ACK byte is 0 or 1 in every state.
\* ------------------------------------------------------------------------
AtMostOneUnacknowledged == Unacknowledged \in {0, 1}

\* ------------------------------------------------------------------------
\* C26  Inbound ACK in steady state.  When the monitor loop dequeues the
\* one-byte frame 0xCC it writes nothing, raises nothing, leaves buffer,
\* snapshot and state as they were and goes back to its wait.
\* ------------------------------------------------------------------------
InboundAckInert ==
  [][\A m \in MonIds :
        (ev'.task = 10 + m /\ ev'.frame = AckFrame /\ ev'.op # "notify") =>
           /\ ev'.op = "mon_single" /\ ~ev'.raised /\ ~ev'.processed
           /\ queue' = Tail(queue)
           /\ UNCHANGED <<wlog, data_buffer, data, state, client, links>>
           /\ mons'[m].pc = "wait"]_vars

\* the monitor loop has dropped an ACK frame and waits again
InboundAckWitness ==
  /\ ev.op = "mon_single" /\ ev.frame = AckFrame
  /\ state = "CONNECTED" /\ LinkUp
  /\ mons[ev.task - 10].pc = "wait"
  /\ Len(wlog) = 2

\* ------------------------------------------------------------------------
\* Vocabulary of the derived values
\* ------------------------------------------------------------------------
\* absent, or a number between 0 and 100
InPercentRange(val) ==
  \/ val = NoneV
  \/ /\ val.t = "float"
     /\ 0 <= val.v[1]
     /\ val.v[1] <= 100 * val.v[2]

\* ------------------------------------------------------------------------
\* C27  Derived percentages, as claimed: whatever integers the fields
\* hold, salt_level_percent and capacity_remaining_percent are absent or
\* between 0 and 100.
\* ------------------------------------------------------------------------
PercentagesClamped ==
  /\ InPercentRange(SaltLevelPercent(data.fields))
  /\ InPercentRange(CapacityRemainingPercent(data.fields))

\* ------------------------------------------------------------------------
\* Authentication token of the configuration flow (springwell_softener)
\* Texts are sequences of code points.
\* ------------------------------------------------------------------------
Hyphen == 45

\* the code points str.strip() removes (str.isspace), below 256
WhiteSpace == {9, 10, 11, 12, 13, 28, 29, 30, 31, 32, 133, 160}

\* [0-9a-fA-F]
IsHexChar(c) == c \in (48..57) \cup (97..102) \cup (65..70)

\* str.strip(): whitespace removed from the left end, then from the right end
RECURSIVE LStrip(_)
LStrip(s) ==
  IF s # <<>> /\ Head(s) \in WhiteSpace THEN LStrip(Tail(s)) ELSE s

RECURSIVE RStrip(_)
RStrip(s) ==
  IF s # <<>> /\ s[Len(s)] \in WhiteSpace THEN RStrip(SubSeq(s, 1, Len(s) - 1)) ELSE s

StrStrip(s) == RStrip(LStrip(s))

\* `$`: the end of the text, or just before a newline that ends the text
AtEnd(s, i) == i = Len(s) + 1 \/ (i = Len(s) /\ s[i] = 10)

\* the groups of UUID_PATTERN, `-?` between two groups
UuidGroups == <<8, 4, 4, 4, 12>>

\* UUID_PATTERN from position i of s on, for the groups gs still to match
RECURSIVE MatchFrom(_, _, _)
MatchFrom(s, i, gs) ==
  /\ i + Head(gs) - 1 <= Len(s)
  /\ \A k \in i..(i + Head(gs) - 1) : IsHexChar(s[k])
  /\ IF Len(gs) = 1
     THEN AtEnd(s, i + Head(gs))
     ELSE \/ /\ i + Head(gs) <= Len(s)
             /\ s[i + Head(gs)] = Hyphen
             /\ MatchFrom(s, i + Head(gs) + 1, Tail(gs))
          \/ MatchFrom(s, i + Head(gs), Tail(gs))

\* UUID_PATTERN.match(s)
UuidPatternMatch(s) == MatchFrom(s, 1, UuidGroups)

\* s.replace("-", "")
RECURSIVE RemoveHyphens(_)
RemoveHyphens(s) ==
  IF s = <<>> THEN <<>>
  ELSE IF Head(s) = Hyphen THEN RemoveHyphens(Tail(s))
  ELSE <<Head(s)>> \o RemoveHyphens(Tail(s))

\* str.upper() on ASCII
StrUpper(s) == [i \in 1..Len(s) |-> IF s[i] \in 97..122 THEN s[i] - 32 ELSE s[i]]

\* the token after strip(), once it is known not to be empty
ValidateStripped(t) ==
  IF UuidPatternMatch(t) THEN StrV(StrUpper(RemoveHyphens(t))) ELSE NoneV

\* validate_auth_token without upper()
ValidateAuthTokenKeepsCase(token) ==
  IF token = <<>> THEN NoneV
  ELSE IF UuidPatternMatch(StrStrip(token)) THEN StrV(RemoveHyphens(StrStrip(token)))
  ELSE NoneV

\* validate_auth_token
ValidateAuthToken(token) ==
  IF token = <<>> THEN NoneV ELSE ValidateStripped(StrStrip(token))

\* the five groups of the sample token 0123abcd-EF01-2345-6789-abCDef012345
SampleGroups ==
  << <<48, 49, 50, 51, 97, 98, 99, 100>>, <<69, 70, 48, 49>>, <<50, 51, 52, 53>>,
     <<54, 55, 56, 57>>, <<97, 98, 67, 68, 101, 102, 48, 49, 50, 51, 52, 53>> >>

Sep(h) == IF h THEN <<Hyphen>> ELSE <<>>

\* the sample with a hyphen at the boundaries hs chooses
Joined(hs) ==
  SampleGroups[1] \o Sep(hs[1]) \o SampleGroups[2] \o Sep(hs[2]) \o SampleGroups[3]
    \o Sep(hs[3]) \o SampleGroups[4] \o Sep(hs[4]) \o SampleGroups[5]

Plain == Joined([b \in 1..4 |-> FALSE])

Hyphenated == Joined([b \in 1..4 |-> TRUE])

StrLower(s) == [i \in 1..Len(s) |-> IF s[i] \in 65..90 THEN s[i] + 32 ELSE s[i]]

\* what surrounds a pasted token: nothing, blanks and a newline, other whitespace
Wraps == { <<<<>>, <<>>>>, <<<<32, 32>>, <<10>>>>, <<<<9>>, <<13, 10>>>>, <<<<160>>, <<133>>>> }

\* every hyphen choice, in three spellings, in every wrap
WellFormedInputs ==
  { w[1] \o t \o w[2] :
      w \in Wraps,
      t \in UNION { {Joined(hs), StrUpper(Joined(hs)), StrLower(Joined(hs))} :
                      hs \in [1..4 -> BOOLEAN] } }

\* texts that are no token
MalformedInputs ==
  { <<>>, <<32, 9>>, <<Hyphen>>,
    SubSeq(Plain, 1, 31),                                      \* one digit short
    Plain \o <<48>>,                                           \* one digit more
    [Plain EXCEPT ![5] = 103],                                 \* g
    [Plain EXCEPT ![32] = 71],                                 \* G
    [Plain EXCEPT ![1] = 1632],                                \* a digit outside ASCII
    SubSeq(Plain, 1, 7) \o <<Hyphen>> \o SubSeq(Plain, 8, 32),  \* hyphen inside a group
    SubSeq(Plain, 1, 8) \o <<Hyphen, Hyphen>> \o SubSeq(Plain, 9, 32),
    <<Hyphen>> \o Plain, Plain \o <<Hyphen>>,
    SubSeq(Plain, 1, 8) \o <<32>> \o SubSeq(Plain, 9, 32),      \* blank inside
    SubSeq(Hyphenated, 1, 8) \o <<32>> \o SubSeq(Hyphenated, 9, 36),
    Plain \o <<10, 48>>,
    <<123>> \o Hyphenated \o <<125>>,                          \* braces
    SubSeq(Hyphenated, 1, 23),                                 \* the last group missing
    Hyphenated \o <<Hyphen>> \o SampleGroups[5] }

TokenInputs == WellFormedInputs \cup MalformedInputs

\* a form step that validated token with result r: the form is shown again
\* with the error invalid_auth_token, or the entry is created with r
Submitted(op, token, r) ==
  /\ ev' = [op |-> op, task |-> 0, token |-> token, result |-> r,
            errors |-> IF r = NoneV THEN <<"invalid_auth_token">> ELSE <<>>,
            entry |-> IF r = NoneV THEN <<>> ELSE <<r>>]
  /\ UNCHANGED <<state, client, links, queue, data_buffer, data, stop_event,
                 monitor_task, calls, mons, nframes, wlog, frags, dev, coord>>

\* async_step_bluetooth_confirm with user input
BluetoothConfirm(token) == Submitted("bluetooth_confirm", token, ValidateAuthToken(token))

\* async_step_manual_auth with user input
ManualAuth(token) == Submitted("manual_auth", token, ValidateAuthToken(token))

TokenNext ==
  \/ \E token \in TokenInputs : BluetoothConfirm(token)
  \/ \E token \in TokenInputs : ManualAuth(token)

TokenSpec == Init /\ [][TokenNext]_vars

\* ------------------------------------------------------------------------
\* Vocabulary of the token properties
\* ------------------------------------------------------------------------
FormSteps == {"bluetooth_confirm", "manual_auth"}

\* s without the whitespace around it: the part from its first to its last
\* code point that is no whitespace
Trimmed(s) ==
  IF \A i \in 1..Len(s) : s[i] \in WhiteSpace THEN <<>>
  ELSE SubSeq(s,
              CHOOSE a \in 1..Len(s) :
                s[a] \notin WhiteSpace /\ \A i \in 1..(a - 1) : s[i] \in WhiteSpace,
              CHOOSE b \in 1..Len(s) :
                s[b] \notin WhiteSpace /\ \A i \in (b + 1)..Len(s) : s[i] \in WhiteSpace)

TokenDigits(t) == SelectSeq(t, LAMBDA c : c # Hyphen)

\* how many code points other than hyphens stand before position i of t
DigitsBefore(t, i) == Cardinality({k \in 1..(i - 1) : t[k] # Hyphen})

\* 32 hexadecimal digits, hyphens only at the group boundaries, at most one
\* at each
WellFormedToken(t) ==
  /\ Len(TokenDigits(t)) = 32
  /\ \A i \in 1..Len(t) : t[i] # Hyphen => IsHexChar(t[i])
  /\ \A i \in 1..Len(t) : t[i] = Hyphen => DigitsBefore(t, i) \in {8, 12, 16, 20}
  /\ \A i \in 1..(Len(t) - 1) : ~(t[i] = Hyphen /\ t[i + 1] = Hyphen)

\* ------------------------------------------------------------------------
\* C28  Token normalization.  validate_auth_token accepts exactly the
\* texts that, without the whitespace around them, are 32 hexadecimal
\* digits with optional hyphens at the UUID group boundaries; it returns
\* the digits without hyphens in upper case and nothing for any other
\* text; it returns its own output unchanged; a config entry is created
\* only with a token it accepted.
\* ------------------------------------------------------------------------
TokenNormalized ==
  ev.op \in FormSteps =>
    /\ ev.result = IF WellFormedToken(Trimmed(ev.token))
                   THEN StrV(StrUpper(TokenDigits(Trimmed(ev.token))))
                   ELSE NoneV
    /\ ev.result # NoneV =>
         /\ Len(ev.result.v) = 32
         /\ \A i \in 1..32 : ev.result.v[i] \in (48..57) \cup (65..70)
         /\ ValidateAuthToken(ev.result.v) = ev.result
    /\ ev.entry # <<>> => ev.result # NoneV /\ ev.entry = <<ev.result>>
    /\ ev.entry = <<>> => ev.result = NoneV /\ ev.errors # <<>>

\* a hyphenated lower-case token pasted with whitespace around it has been
\* accepted and the entry holds its 32 upper-case digits
TokenNormalizedWitness ==
  /\ ev.op \in FormSteps
  /\ ev.token = <<32, 32>> \o StrLower(Hyphenated) \o <<10>>
  /\ ev.result = StrV(StrUpper(Plain))
  /\ ev.entry = <<ev.result>>

\* ------------------------------------------------------------------------
\* C29  The notification callback only enqueues.  A step of the callback
\* puts the delivered frame at the tail of the queue and does nothing else:
\* it writes no packet, leaves ConnectionState, the assembly buffer and the
\* snapshot as they were, and moves no task (it waits for nothing).
\* ------------------------------------------------------------------------
CallbackOnlyEnqueues ==
  [][ev'.op = "notify" =>
       /\ Len(queue') = Len(queue) + 1
       /\ queue'[Len(queue')] = ev'.frame
       /\ SubSeq(queue', 1, Len(queue)) = queue
       /\ UNCHANGED <<wlog, state, data_buffer, data, frags>>
       /\ UNCHANGED <<client, links, stop_event, monitor_task, calls, mons>>]_vars

\* a final fragment has arrived while the payload of an earlier fragment is
\* in the buffer and packets have been written: it is in the queue, the
\* buffer still holds the earlier payload only
CallbackOnlyEnqueuesWitness ==
  /\ ev.op = "notify" /\ ev.frame = FragLast
  /\ state \in {"AUTHENTICATING", "CONNECTED"}
  /\ frags = <<FragFirst>>
  /\ data_buffer = StripFraming(FragFirst)
  /\ wlog # <<>>
  /\ queue = <<FragLast>>

\* ------------------------------------------------------------------------
\* Vocabulary of the header bits
\* ------------------------------------------------------------------------
\* frame f with bit 0x80 of its header byte inverted
FlipFirst(f) ==
  [f EXCEPT ![1] = IF BitSet(f[1], HEADER_FIRST_PACKET)
                   THEN f[1] - HEADER_FIRST_PACKET
                   ELSE f[1] + HEADER_FIRST_PACKET]

\* this step left buffer and snapshot, and gave the decoder and the
\* callback, what result r says
SameOutcome(r) ==
  /\ data_buffer' = r.buf
  /\ data' = r.data
  /\ ev'.decoded = r.decoded
  /\ ev'.input = r.input
  /\ ev'.cb = r.cb
  /\ ev'.raised = r.raised

\* ------------------------------------------------------------------------
\* C30  The first-fragment bit.  Every step that handles a frame of more
\* than one byte does what it would do for the frame with bit 0x80
\* inverted: the packet written on dequeuing is the ACK whenever the link
\* is up and nothing otherwise, and _process_packet leaves the buffer and
\* the snapshot, and hands the decoder the bytes, that it would for the
\* inverted frame.  A fragment of three bytes or more is appended to the
\* buffer as it stands, bit 0x80 set or not: the decoder input, or the
\* buffer kept, is the old buffer followed by the payload.
\* ------------------------------------------------------------------------
FirstBitInert ==
  [][(ev'.op # "notify" /\ Len(ev'.frame) > 1) =>
       /\ wlog' = IF queue' # queue /\ LinkUp
                  THEN Written(ev'.task, <<ACK>>) ELSE wlog
       /\ ~ev'.processed => UNCHANGED <<data_buffer, data>>
       /\ ev'.processed =>
            SameOutcome(ProcessPacket(FlipFirst(ev'.frame), data_buffer, data))
       /\ (ev'.processed /\ Len(ev'.frame) >= 3) =>
            IF ev'.decoded
            THEN ev'.input = data_buffer \o Payload(ev'.frame)
            ELSE data_buffer' = data_buffer \o Payload(ev'.frame)]_vars

\* the final fragment of {"dbl":5} was lost; the next message, a single
\* fragment with both bits set, has been decoded after the stale bytes
FirstBitWitness ==
  /\ ev.processed /\ ev.frame = FragUnknown
  /\ BitSet(ev.frame[1], HEADER_FIRST_PACKET)
  /\ ev.decoded
  /\ ev.input = Payload(FragFirst) \o Payload(FragUnknown)
  /\ Len(wlog) >= 2

\* ------------------------------------------------------------------------
\* Vocabulary of the session boundaries
\* ------------------------------------------------------------------------
\* the auth-request packets among the packets w
EaWrites(w) == {i \in 1..Len(w) : w[i].pkt = <<AUTH_REQUEST>>}

\* positions of connect() inside _authenticate, after its first statement
HandshakePcs == {"ea_write", "auth_wait", "auth_ack_write", "token_write"}

\* ------------------------------------------------------------------------
\* C31  No internal handshake retry, as claimed: the first packet written
\* in an attempt is 0xEA; it is written once, and a connect() that is
\* inside the handshake has written it; after a handshake timeout nothing
\* more is written until the caller calls connect() again.
\* ------------------------------------------------------------------------
NoHandshakeRetry ==
  [][/\ wlog' # <<>> => wlog'[1].pkt = <<AUTH_REQUEST>>
     /\ Cardinality(EaWrites(wlog')) <= 1
     /\ \A c \in CallerIds :
          calls'[c].pc \in HandshakePcs => Cardinality(EaWrites(wlog')) = 1
     /\ ((\E c \in CallerIds : calls[c].why = "timeout") /\ ev'.op # "connect_start")
          => wlog' = wlog]_vars

\* ------------------------------------------------------------------------
\* C32  No cross-session contamination, as claimed: when a connect()
\* attempt begins, the assembly buffer and the inbound queue are empty.
\* ------------------------------------------------------------------------
SessionStartsClean ==
  ev.op = "connect_start" => data_buffer = <<>> /\ queue = <<>>

\* ------------------------------------------------------------------------
\* Vocabulary of the connected state
\* ------------------------------------------------------------------------
\* the monitor tasks created and not ended: not yet run, or inside the loop
MonAlive == {m \in MonIds : mons[m].pc \in {"pending", "wait", "ack_write", "polo_write"}}

\* ------------------------------------------------------------------------
\* C33  Connected, as claimed: under every interleaving of connect() and
\* disconnect() calls, whenever state is Connected the client holds a link
\* reference and exactly one monitor task is running or about to start.
\* ------------------------------------------------------------------------
ConnectedHoldsLink ==
  state = "CONNECTED" => client # 0 /\ Cardinality(MonAlive) = 1

\* ------------------------------------------------------------------------
\* C34  Recovery, as claimed: whenever no connect() or disconnect() call
\* is in progress and no monitor task is running or about to run, state is
\* Disconnected, so that the next connect() starts a new attempt.
\* ------------------------------------------------------------------------
RecoveryPossible ==
  (CallersIdle /\ MonAlive = {}) => state = "DISCONNECTED"

\* ------------------------------------------------------------------------
\* C35  Every handshake terminates, as claimed: whatever the device sends,
\* a connect() that is inside the authentication loop eventually leaves
\* it.
\* ------------------------------------------------------------------------
HandshakeTerminates ==
  \A c \in CallerIds :
     (calls[c].pc \in HandshakePcs) ~> (calls[c].pc \notin HandshakePcs)

\* ------------------------------------------------------------------------
\* C36  No leaked link, as claimed: whenever state is Disconnected and no
\* connect() or disconnect() call is in progress, the client holds no link
\* that is still open or still subscribed for notifications.
\* ------------------------------------------------------------------------
NoLeakedLink ==
  (state = "DISCONNECTED" /\ CallersIdle) =>
     \/ client = 0
     \/ ~links[client].connected /\ ~links[client].notify

\* ------------------------------------------------------------------------
\* C37  connect() while not Disconnected.  A connect() call made in a
\* state other than Disconnected returns at once with the value of
\* is_connected: it writes nothing, starts no handshake and no monitor
\* task, and leaves state, link, queue, buffer and snapshot as they were.
\* ------------------------------------------------------------------------
ConnectNoopWhenNotDisconnected ==
  [][\A c \in CallerIds :
        (ev'.op \in {"connect_start", "connect_noop"} /\ ev'.task = c
           /\ state # "DISCONNECTED") =>
          /\ ev'.op = "connect_noop"
          /\ calls'[c].pc = "idle"
          /\ calls'[c].ret = IF state = "CONNECTED" /\ client # 0 /\ links[client].connected
                             THEN "true" ELSE "false"
          /\ UNCHANGED <<wlog, state, data_buffer, data, frags>>
          /\ UNCHANGED <<client, links, queue, stop_event, monitor_task, mons>>]_vars

\* connect() was called in state Connected after the link had gone down:
\* it returned False and the session is as it was
ConnectNoopWitness ==
  /\ ev.op = "connect_noop" /\ calls[1].pc = "idle" /\ calls[1].ret = "false"
  /\ state = "CONNECTED" /\ client # 0 /\ ~links[client].connected
  /\ MonAlive # {}

\* ------------------------------------------------------------------------
\* Vocabulary of the coordinator properties
\* ------------------------------------------------------------------------
\* the tasks inside a coordinator method
InsideLock == {c \in CallerIds : coord[c] # "out"}

\* the tasks with a connect() or disconnect() call of the engine in progress
CallsInFlight == {c \in CallerIds : calls[c].pc # "idle"}

\* ------------------------------------------------------------------------
\* C38  Coordinator serialization.  At most one task is inside the update
\* path or the shutdown path; at most one call of the engine is in
\* progress, and the task that makes it is inside the lock; and every step
\* in which the coordinator calls connect() starts from is_connected false,
\* inside the update path.
\* ------------------------------------------------------------------------
CoordinatorSerialized ==
  [][/\ Cardinality(InsideLock) <= 1
     /\ Cardinality(CallsInFlight) <= 1
     /\ CallsInFlight \subseteq InsideLock
     /\ ev'.op \in {"connect_start", "connect_noop"} =>
          /\ ~IsConnected
          /\ coord[ev'.task] = "update"
     /\ ev'.op = "disconnect" => coord[ev'.task] = "shutdown"]_vars

\* a shutdown waits in disconnect() for the monitor task of the session
\* that an update of the other task set up earlier
CoordinatorWitness ==
  /\ coord[2] = "shutdown" /\ calls[2].pc = "d_join"
  /\ coord[1] = "out" /\ calls[1].ret = "true"
  /\ state = "CONNECTED"

\* ------------------------------------------------------------------------
\* Vocabulary of the comparison of the integrations
\* ------------------------------------------------------------------------
\* equal as Python values: the same value, or an integer and the float of
\* the same number
SameValue(a, b) ==
  \/ a = b
  \/ a.t = "int" /\ b = FloatV(a.v, 1)
  \/ b.t = "int" /\ a = FloatV(b.v, 1)

\* ------------------------------------------------------------------------
\* C39  The two integrations, as claimed: for every value a field of the
\* snapshot holds (an integer, 0 included, or nothing) _hundredths,
\* _hundredths_or_zero and _thousands of chandler_system and of
\* springwell_softener return the same result.
\* ------------------------------------------------------------------------
TransformsAgree ==
  \A fn \in FieldNames :
     (data.fields[fn] = NoneV \/ data.fields[fn].t = "int") =>
        /\ SameValue(Hundredths(data.fields[fn]), SpringwellHundredths(data.fields[fn]))
        /\ SameValue(HundredthsOrZero(data.fields[fn]),
                     SpringwellHundredthsOrZero(data.fields[fn]))
        /\ SameValue(Thousands(data.fields[fn]), SpringwellThousands(data.fields[fn]))

====
